---- MODULE Spec2Model ----
(***************************************************************************)
(* A model of the request-lifecycle engine of the cache proxy:             *)
(*   - MessageQueue   (src/src/backend/message_queue.rs)                   *)
(*   - Pipeline       (src/src/service/pipeline.rs, src/src/listener.rs)   *)
(*   - BackendHealth  (src/src/backend/health.rs)                          *)
(*   - ShadowRouter   (src/src/routing/shadow.rs)                          *)
(*   - Backend, BackendSupervisor, BackendConnection                       *)
(*                    (src/src/backend/backend.rs)                         *)
(*   - redis fan-out  (src/src/backend/redis.rs)                           *)
(* Each subsystem has its own specification (SpecMQ, SpecMQAny,            *)
(* SpecPipeline, SpecPipelineLive, SpecClient, SpecHealth, SpecShadow,     *)
(* SpecBackend, SpecFanout); the actions of one leave the variables of     *)
(* the others unchanged.                                                   *)
(***************************************************************************)
EXTENDS Integers, Sequences, FiniteSets, TLC

\* ------------------------------------------------------------------ bounds
\* Pieces (slots) enqueued over one run of the message queue.
MaxPieces == 3
\* Keys of one multi-key command (MGET / MSET / DEL).
MaxKeys == 2
\* Client messages of one enqueue call.
MaxBatch == 2
\* Entries of one fulfill batch.
MaxFulfill == 2
\* Requests read from the transport over one run of the pipeline.
MaxRequests == 3

\* ------------------------------------------------------------- basic values
\* A byte buffer is a sequence of tokens; a Message is modelled by the buffer
\* it carries (Message::into_buf gives back exactly that buffer).
Tok(k, n) == [k |-> k, n |-> n]

\* Option<T>
None == [some |-> FALSE, val |-> <<>>]
Some(v) == [some |-> TRUE, val |-> v]

\* MessageState (message_queue.rs:29-63).  One record shape for the four
\* variants so that states can be compared.
Standalone == [tag |-> "Standalone", parent |-> "", index |-> 0, count |-> 0, header |-> None]
Inline == [tag |-> "Inline", parent |-> "", index |-> 0, count |-> 0, header |-> None]
Fragmented(p, i, c) == [tag |-> "Fragmented", parent |-> p, index |-> i, count |-> c, header |-> None]
StreamingFragmented(h) == [tag |-> "StreamingFragmented", parent |-> "", index |-> 0, count |-> 0, header |-> h]

\* MessageResponse (message_queue.rs:67-74)
Failed == [kind |-> "Failed", msg |-> <<>>]
Complete(m) == [kind |-> "Complete", msg |-> m]

\* ------------------------------------------------------------------- Slab
\* slab::Slab<T>: a vector of entries and the head of the free list.  Keys
\* are 0-based; key k lives at entries[k + 1].  A removed key is the next
\* one handed out (the free list is LIFO).
Vacant(n) == [occ |-> FALSE, next |-> n, val |-> None]
Occupied(v) == [occ |-> TRUE, next |-> 0, val |-> v]
SlabNew == [entries |-> <<>>, next |-> 0]

SlabContains(s, key) == key < Len(s.entries) /\ s.entries[key + 1].occ

\* Slab::get: Option<&T>; T is Option<Message> here.
SlabGet(s, key) == IF SlabContains(s, key) THEN Some(s.entries[key + 1].val) ELSE None

\* Slab::insert: the key is s.next.
SlabInsert(s, v) ==
    IF s.next = Len(s.entries)
    THEN [entries |-> Append(s.entries, Occupied(v)), next |-> s.next + 1]
    ELSE [entries |-> [s.entries EXCEPT ![s.next + 1] = Occupied(v)],
          next |-> s.entries[s.next + 1].next]

\* Slab::remove of an occupied key.  (Faulty variant: the key stays allocated.)
SlabRemoveKeepsSlot(s, key) == s
SlabRemove(s, key) ==
    [entries |-> [s.entries EXCEPT ![key + 1] = Vacant(s.next)], next |-> key]

SlabKeys(s) == {k \in 0..(Len(s.entries) - 1) : s.entries[k + 1].occ}

\* ---------------------------------------------------------------- Processor
\* The messages the processor synthesises.
PongMsg == <<Tok("pong", 0)>>
UnsupportedMsg == <<Tok("err", 1)>>
FailedMsg == <<Tok("err", 2)>>
PartialFailureMsg == <<Tok("err", 3)>>
OkMsg == <<Tok("ok", 0)>>

\* Processor::get_error_message_str("failed to receive response")
get_error_message_str == FailedMsg

IsError(m) == Len(m) > 0 /\ m[1].k = "err"

\* Client commands handed to enqueue.
Commands ==
    {[name |-> n, nkeys |-> 1] : n \in {"GET", "PING"}}
    \cup {[name |-> n, nkeys |-> k] : n \in {"MGET", "MSET"}, k \in 1..MaxKeys}

\* The sub-request of command c for its i-th key (0-based).
SubRequest(c, i) == <<Tok(c.name, i)>>

\* Processor::fragment_messages for one message.
FragmentOne(c) ==
    CASE c.name = "GET" -> <<[state |-> Standalone, msg |-> SubRequest(c, 0)]>>
      [] c.name = "PING" -> <<[state |-> Inline, msg |-> PongMsg]>>
      [] c.name = "INFO" -> <<[state |-> Inline, msg |-> UnsupportedMsg]>>
      [] c.name = "MGET" ->
            [i \in 1..c.nkeys |->
                [state |-> StreamingFragmented(
                              IF i = 1 THEN Some(<<Tok("hdr", c.nkeys)>>) ELSE None),
                 msg |-> SubRequest(c, i - 1)]]
      [] OTHER ->
            [i \in 1..c.nkeys |->
                [state |-> Fragmented(c.name, i - 1, c.nkeys),
                 msg |-> SubRequest(c, i - 1)]]

RECURSIVE fragment_messages(_)
fragment_messages(msgs) ==
    IF msgs = <<>> THEN <<>>
    ELSE FragmentOne(Head(msgs)) \o fragment_messages(Tail(msgs))

RECURSIVE SumInts(_)
SumInts(frags) ==
    IF frags = <<>> THEN 0
    ELSE (IF Len(Head(frags).msg) > 0 /\ Head(frags).msg[1].k = "int"
          THEN Head(frags).msg[1].n ELSE 0) + SumInts(Tail(frags))

\* Processor::defragment_messages: Result<Message, ProcessorError>.
\* A structural mismatch is a ProcessorError; a group with a failed fragment
\* coalesces to one error reply; MSET coalesces to +OK, DEL sums its replies.
\* A group of no fragments has no fragment that mismatches: it coalesces to
\* the empty reply.
defragment_messages(frags) ==
    IF frags = <<>> THEN [ok |-> TRUE, msg |-> <<>>]
    ELSE IF \E i \in 1..Len(frags) :
            \/ frags[i].state.tag /= "Fragmented"
            \/ frags[i].state.count /= Len(frags)
            \/ frags[i].state.index /= i - 1
            \/ frags[i].state.parent /= frags[1].state.parent
    THEN [ok |-> FALSE, msg |-> <<>>]
    ELSE IF \E i \in 1..Len(frags) : IsError(frags[i].msg)
    THEN [ok |-> TRUE, msg |-> PartialFailureMsg]
    ELSE IF frags[1].state.parent = "DEL"
    THEN [ok |-> TRUE, msg |-> <<Tok("int", SumInts(frags))>>]
    ELSE [ok |-> TRUE, msg |-> OkMsg]

\* ------------------------------------------------------------ MessageQueue
VARIABLES
    slot_order,   \* VecDeque<(usize, MessageState)>; each entry also carries the
                  \* serial number of its piece (history, not read by the code)
    slots,        \* Slab<Option<Message>>
    mq_pc,        \* "idle", "sending" inside the loop of get_sendable_bufs,
                  \* "fulfilling" inside the loop of fulfill
    bufs,         \* the local vector of get_sendable_bufs
    fulfill_n,    \* entries of the batch read so far by the running fulfill
    mq_arg,       \* argument of the last call: the messages given to enqueue,
                  \* the batch entry fulfill read last
    mq_ret,       \* what the last call returned
    next_serial,  \* history: serial number of the next piece enqueued
    assigned,     \* history: assigned[n] is the slot id given to piece n and
                  \* whether the piece was returned for dispatch
    n_emitted,    \* history: how many pieces have been emitted
    last_emit     \* history: the last buffer get_next_response produced, the
                  \* entries it popped and the responses they held

mqvars == <<slot_order, slots, mq_pc, bufs, fulfill_n, mq_arg, mq_ret, next_serial, assigned, n_emitted, last_emit>>

Ret(op, ok, batch, out) == [op |-> op, ok |-> ok, batch |-> batch, bufs |-> out]

InitMQ ==
    /\ slot_order = <<>>
    /\ slots = SlabNew
    /\ mq_pc = "idle"
    /\ bufs = <<>>
    /\ fulfill_n = 0
    /\ mq_arg = <<>>
    /\ mq_ret = Ret("new", TRUE, <<>>, <<>>)
    /\ next_serial = 1
    /\ assigned = <<>>
    /\ n_emitted = 0
    /\ last_emit = [taken |-> <<>>, buf |-> <<>>, payloads |-> <<>>]

\* VecDeque::push_back.  (Faulty variant: push_front.)
push_front(q, e) == <<e>> \o q
push_back(q, e) == Append(q, e)

\* message_queue.rs:111-121.  `slot` is a 0-based position in slot_order.
is_slot_ready(q, s, slot) ==
    /\ slot < Len(q)
    /\ LET g == SlabGet(s, q[slot + 1].slot_id)
       IN g.some /\ g.val.some

\* message_queue.rs:131-146
has_immediate(q, s) ==
    /\ q /= <<>>
    /\ SlabGet(s, Head(q).slot_id).some
    /\ Head(q).state.tag \in {"Standalone", "Inline", "StreamingFragmented"}

\* message_queue.rs:152-164: the buffer of an immediately available slot.
\* (Faulty variant: the header is left out.)
ImmediateBufNoHeader(state, slot) == slot
ImmediateBuf(state, slot) ==
    IF state.tag = "StreamingFragmented" /\ state.header.some
    THEN state.header.val \o slot
    ELSE slot

\* message_queue.rs:182-186.  (Faulty variant: only the head is looked at.)
OnlyHeadReady(q, s, fragment_count) == is_slot_ready(q, s, 0)
AllFragmentsReady(q, s, fragment_count) ==
    \A index \in 0..(fragment_count - 1) : is_slot_ready(q, s, index)

\* message_queue.rs:190-194: the slab after removing the slots of `items`, in order.
RECURSIVE RemoveSlots(_, _)
RemoveSlots(s, items) ==
    IF items = <<>> THEN s
    ELSE RemoveSlots(SlabRemove(s, Head(items).slot_id), Tail(items))

Resp(res, buf, q, s, taken) == [res |-> res, buf |-> buf, q |-> q, s |-> s, taken |-> taken]

\* message_queue.rs:123-198.  res is "NotReady", "Ready" (Ok(Async::Ready(Some(buf))))
\* or "Err"; q and s are the queue and the slab the call leaves behind; taken
\* are the entries popped from slot_order.
get_next_response(q, s) ==
    IF ~is_slot_ready(q, s, 0) THEN Resp("NotReady", <<>>, q, s, <<>>)
    ELSE IF has_immediate(q, s)
    THEN LET front == Head(q)
             slot == SlabGet(s, front.slot_id).val.val
         IN Resp("Ready", ImmediateBuf(front.state, slot), Tail(q),
                 SlabRemove(s, front.slot_id), <<front>>)
    ELSE LET fragment_count == Head(q).state.count
         IN IF ~AllFragmentsReady(q, s, fragment_count)
            THEN Resp("NotReady", <<>>, q, s, <<>>)
            ELSE LET taken == SubSeq(q, 1, fragment_count)
                     rest == SubSeq(q, fragment_count + 1, Len(q))
                     fragments == [i \in 1..fragment_count |->
                                      [state |-> taken[i].state,
                                       msg |-> SlabGet(s, taken[i].slot_id).val.val]]
                     d == defragment_messages(fragments)
                 IN Resp(IF d.ok THEN "Ready" ELSE "Err", d.msg, rest,
                         RemoveSlots(s, taken), taken)

\* message_queue.rs:204-213: one iteration of the loop of enqueue.
\* acc = [q, s, qmsgs, serial, assigned]
\* (Faulty variant: an Inline piece is treated like the others.)
EnqueueOneAllDispatched(acc, piece) ==
    LET slot_id == acc.s.next
    IN [q |-> push_back(acc.q, [slot_id |-> slot_id, state |-> piece.state, serial |-> acc.serial]),
        s |-> SlabInsert(acc.s, None),
        qmsgs |-> Append(acc.qmsgs, [slot |-> slot_id, msg |-> piece.msg]),
        serial |-> acc.serial + 1,
        assigned |-> Append(acc.assigned, [slot |-> slot_id, dispatched |-> TRUE])]
EnqueueOne(acc, piece) ==
    LET slot_id == acc.s.next
        entry == [slot_id |-> slot_id, state |-> piece.state, serial |-> acc.serial]
    IN IF piece.state = Inline
       THEN [q |-> push_back(acc.q, entry),
             s |-> SlabInsert(acc.s, Some(piece.msg)),
             qmsgs |-> acc.qmsgs,
             serial |-> acc.serial + 1,
             assigned |-> Append(acc.assigned, [slot |-> slot_id, dispatched |-> FALSE])]
       ELSE [q |-> push_back(acc.q, entry),
             s |-> SlabInsert(acc.s, None),
             qmsgs |-> Append(acc.qmsgs, [slot |-> slot_id, msg |-> piece.msg]),
             serial |-> acc.serial + 1,
             assigned |-> Append(acc.assigned, [slot |-> slot_id, dispatched |-> TRUE])]

RECURSIVE EnqueueLoop(_, _)
EnqueueLoop(acc, fmsgs) ==
    IF fmsgs = <<>> THEN acc
    ELSE EnqueueLoop(EnqueueOne(acc, Head(fmsgs)), Tail(fmsgs))

\* The batches of client messages handed to enqueue.
CommandBatches == UNION {[1..n -> Commands] : n \in 1..MaxBatch}

\* message_queue.rs:203-215: enqueue once the processor has returned the
\* pieces fmsgs for the messages msgs.
enqueue_pieces(msgs, fmsgs) ==
    /\ mq_pc = "idle"
    /\ LET r == EnqueueLoop([q |-> slot_order, s |-> slots, qmsgs |-> <<>>,
                             serial |-> next_serial, assigned |-> assigned], fmsgs)
       IN /\ next_serial + Len(fmsgs) <= MaxPieces + 1
          /\ slot_order' = r.q
          /\ slots' = r.s
          /\ next_serial' = r.serial
          /\ assigned' = r.assigned
          /\ mq_arg' = msgs
          /\ mq_ret' = Ret("enqueue", TRUE, r.qmsgs, <<>>)
    /\ UNCHANGED <<mq_pc, bufs, fulfill_n, n_emitted, last_emit>>

\* message_queue.rs:200-216
enqueue(msgs) == enqueue_pieces(msgs, fragment_messages(msgs))

\* The queue is generic over its processor (message_queue.rs:79-92): the
\* states of the pieces a processor of any kind may return from
\* fragment_messages.  The Fragmented ones carry any index and any count, 0
\* and counts larger than the queue included.
AnyStates ==
    {Standalone, Inline}
    \cup {Fragmented("MSET", 0, c) : c \in {0, 1, 2, MaxPieces + 1}}
    \cup {Fragmented("MSET", 1, c) : c \in {1, 2}}

AnyPieces ==
    {[state |-> st, msg |-> IF st = Inline THEN PongMsg ELSE <<Tok("req", 0)>>] :
        st \in AnyStates}

AnyFragments == UNION {[1..n -> AnyPieces] : n \in 1..MaxBatch}

\* message_queue.rs:200-216 over a processor of any kind.
enqueue_any(fmsgs) == enqueue_pieces(<<>>, fmsgs)

\* message_queue.rs:201: fragment_messages fails and `?` returns its error
\* before the queue is touched.
enqueue_fails ==
    /\ mq_pc = "idle"
    /\ mq_ret.op /= "enqueue_err"
    /\ mq_ret' = Ret("enqueue_err", FALSE, <<>>, <<>>)
    /\ mq_arg' = <<>>
    /\ UNCHANGED <<slot_order, slots, mq_pc, bufs, fulfill_n, next_serial, assigned,
                   n_emitted, last_emit>>

\* message_queue.rs:221-229: install one response into its slot.
\* (Faulty variant: a Failed response leaves the slot as it is.)
FulfillOneDropFailed(s, e) ==
    IF e.response.kind = "Complete"
    THEN [s EXCEPT !.entries[e.slot + 1].val = Some(e.response.msg)]
    ELSE s
FulfillOne(s, e) ==
    [s EXCEPT !.entries[e.slot + 1].val =
        Some(IF e.response.kind = "Complete" THEN e.response.msg
             ELSE get_error_message_str)]

\* message_queue.rs:219-229: one iteration of the loop of fulfill.  `?` leaves
\* with Err(()) at an entry whose slot is not allocated.
\* (Faulty variant: such an entry is skipped.)
FulfillStepSkipMissing(s, e) ==
    IF ~SlabContains(s, e.slot)
    THEN [ok |-> TRUE, s |-> s]
    ELSE [ok |-> TRUE, s |-> FulfillOne(s, e)]
FulfillStep(s, e) ==
    IF ~SlabContains(s, e.slot)
    THEN [ok |-> FALSE, s |-> s]
    ELSE [ok |-> TRUE, s |-> FulfillOne(s, e)]

\* The responses a backend may give.
Responses == {Failed, Complete(<<Tok("int", 1)>>)}

\* The entries a fulfill batch may hold: a response for a piece dispatched so
\* far (still queued or already emitted, answered before or not), under the slot
\* id that piece was given, or a response under an id that was never allocated.
\* The field `serial` is history: the piece the response answers, 0 for none.
FulfillEntries ==
    {[slot |-> assigned[n].slot, response |-> r, serial |-> n] :
        n \in {m \in 1..(next_serial - 1) : assigned[m].dispatched}, r \in Responses}
    \cup {[slot |-> MaxPieces, response |-> r, serial |-> 0] : r \in Responses}

\* message_queue.rs:218: fulfill is called.  The batch is read entry by entry
\* by fulfill_loop; nothing else runs until the call returns.
fulfill ==
    /\ mq_pc = "idle"
    /\ mq_pc' = "fulfilling"
    /\ fulfill_n' = 0
    /\ mq_arg' = <<>>
    /\ mq_ret' = Ret("pending", TRUE, <<>>, <<>>)
    /\ UNCHANGED <<slot_order, slots, bufs, next_serial, assigned, n_emitted, last_emit>>

\* message_queue.rs:219-230: the next entry e of the batch.
\* (Faulty variant: an error takes back the entry installed before it.)
fulfill_loop_rolls_back(e) ==
    /\ mq_pc = "fulfilling"
    /\ fulfill_n < MaxFulfill
    /\ LET r == FulfillStep(slots, e)
       IN /\ slots' = IF ~r.ok /\ fulfill_n > 0 /\ SlabContains(slots, mq_arg.slot)
                      THEN [slots EXCEPT !.entries[mq_arg.slot + 1].val = None]
                      ELSE r.s
          /\ mq_arg' = e
          /\ fulfill_n' = fulfill_n + 1
          /\ IF r.ok
             THEN UNCHANGED <<mq_pc, mq_ret>>
             ELSE /\ mq_pc' = "idle"
                  /\ mq_ret' = Ret("fulfill", FALSE, <<>>, <<>>)
    /\ UNCHANGED <<slot_order, bufs, next_serial, assigned, n_emitted, last_emit>>
fulfill_loop(e) ==
    /\ mq_pc = "fulfilling"
    /\ fulfill_n < MaxFulfill
    /\ LET r == FulfillStep(slots, e)
       IN /\ slots' = r.s
          /\ mq_arg' = e
          /\ fulfill_n' = fulfill_n + 1
          /\ IF r.ok
             THEN UNCHANGED <<mq_pc, mq_ret>>
             ELSE /\ mq_pc' = "idle"
                  /\ mq_ret' = Ret("fulfill", FALSE, <<>>, <<>>)
    /\ UNCHANGED <<slot_order, bufs, next_serial, assigned, n_emitted, last_emit>>

\* message_queue.rs:231: the batch is exhausted, Ok(()).
fulfill_return ==
    /\ mq_pc = "fulfilling"
    /\ mq_pc' = "idle"
    /\ mq_ret' = Ret("fulfill", TRUE, <<>>, <<>>)
    /\ UNCHANGED <<slot_order, slots, bufs, mq_arg, fulfill_n, next_serial, assigned,
                   n_emitted, last_emit>>

\* message_queue.rs:234-239: the entry of get_sendable_bufs.
get_sendable_bufs ==
    /\ mq_pc = "idle"
    /\ mq_arg' = <<>>
    /\ IF ~is_slot_ready(slot_order, slots, 0)
       THEN /\ mq_ret' = Ret("get_sendable_bufs", FALSE, <<>>, <<>>)
            /\ UNCHANGED <<mq_pc, bufs>>
       ELSE /\ mq_pc' = "sending"
            /\ bufs' = <<>>
            /\ mq_ret' = Ret("pending", TRUE, <<>>, <<>>)
    /\ UNCHANGED <<slot_order, slots, fulfill_n, next_serial, assigned, n_emitted, last_emit>>

\* message_queue.rs:240-250: one iteration of the loop of get_sendable_bufs,
\* a call of get_next_response.
get_sendable_bufs_loop ==
    /\ mq_pc = "sending"
    /\ Len(bufs) <= MaxPieces
    /\ LET r == get_next_response(slot_order, slots)
       IN /\ slot_order' = r.q
          /\ slots' = r.s
          /\ IF r.res = "Ready"
             THEN /\ bufs' = Append(bufs, r.buf)
                  /\ n_emitted' = n_emitted + Len(r.taken)
                  /\ last_emit' = [taken |-> r.taken, buf |-> r.buf,
                        payloads |-> [i \in 1..Len(r.taken) |->
                                         SlabGet(slots, r.taken[i].slot_id).val.val]]
                  /\ UNCHANGED <<mq_pc, mq_ret>>
             ELSE /\ mq_pc' = "idle"
                  /\ mq_ret' = Ret("get_sendable_bufs", TRUE, <<>>, bufs)
                  /\ UNCHANGED <<bufs, n_emitted, last_emit>>
    /\ UNCHANGED <<mq_arg, fulfill_n, next_serial, assigned>>

\* ---------------------------------------------------------------- Pipeline
VARIABLES
    pending,         \* FuturesOrdered<S::Future>, in push order: [id, st, polled],
                     \* st is "running", or the result the future has ready: "ok",
                     \* "err"; polled: the future was polled (its waker is set)
    responses,       \* VecDeque<S::Response>: the ids of the completed calls
    finish,          \* the finish flag
    called_service,  \* the local called_service of poll
    pl_pc,           \* position of poll: "idle" between two calls of poll, "done"
                     \* once poll has returned Ready, else the call poll makes next
    pl_result,       \* what poll returned last
    sent,            \* history: the responses given to transport.start_send
    n_read,          \* history: requests read from the transport so far
    last_flush,      \* result of the last transport.poll_flush
    last_io,         \* the call poll made last on the transport, the service or
                     \* the pending futures, and its result
    wakers,          \* the transport and service calls of this pass of poll (or
                     \* of the last one) that returned Pending: each has the
                     \* task's waker.  A waker left by an earlier pass can only
                     \* bring a poll nothing else asked for, which poll allows
    notified,        \* the task is scheduled to be polled
    close_raised     \* the close signal of the listener is raised

plvars == <<pending, responses, finish, called_service, pl_pc, pl_result, sent, n_read,
            last_flush, last_io, wakers, notified, close_raised>>

Io(call, res) == [call |-> call, res |-> res]

\* pipeline.rs:65-73; the task that is spawned is scheduled (listener.rs:244).
InitPipeline ==
    /\ pending = <<>>
    /\ responses = <<>>
    /\ finish = FALSE
    /\ called_service = FALSE
    /\ pl_pc = "idle"
    /\ pl_result = "none"
    /\ sent = <<>>
    /\ n_read = 0
    /\ last_flush = "none"
    /\ last_io = Io("none", "none")
    /\ wakers = {}
    /\ notified = TRUE
    /\ close_raised = FALSE

\* FuturesOrdered::poll_next (pipeline.rs:88): the position in `p` of the future
\* whose result is yielded, 0 when nothing is yielded.  Results come out in
\* push order only: a completed future waits behind an earlier running one.
\* (Faulty variant: the first completed future is yielded, as FuturesUnordered
\* would.)
poll_next_unordered(p) ==
    IF \E i \in 1..Len(p) : p[i].st /= "running"
    THEN CHOOSE i \in 1..Len(p) :
            /\ p[i].st /= "running"
            /\ \A j \in 1..(i - 1) : p[j].st = "running"
    ELSE 0
poll_next(p) == IF p /= <<>> /\ p[1].st /= "running" THEN 1 ELSE 0

RemoveAt(s, i) == SubSeq(s, 1, i - 1) \o SubSeq(s, i + 1, Len(s))

\* pipeline.rs:88: a poll_next that yields nothing has polled every future.
\* (Faulty variant: the futures are left as they are.)
PollNone(p) == p
PollAll(p) == [i \in 1..Len(p) |-> [p[i] EXCEPT !.polled = TRUE]]

\* pipeline.rs:124: the condition of successful termination.
\* (Faulty variant: pending is not looked at.)
all_done_ignoring_pending(f, r, p) == f /\ r = <<>>
all_done(f, r, p) == f /\ r = <<>> /\ p = <<>>

\* poll returns Poll::Pending / Poll::Ready(result).
ReturnPending == pl_pc' = "idle" /\ pl_result' = "Pending"
ReturnReady(result) == pl_pc' = "done" /\ pl_result' = result

\* pipeline.rs:84-86: the executor polls the pipeline (first poll, wake-up, or
\* a poll nothing asked for).
poll ==
    /\ pl_pc = "idle"
    /\ pl_pc' = "drive"
    /\ pl_result' = "none"
    /\ notified' = FALSE
    /\ wakers' = {}
    /\ UNCHANGED <<pending, responses, finish, called_service, sent, n_read, last_flush,
                   last_io, close_raised>>

\* A service future becomes ready with a result; it is yielded when polled.
\* It wakes the task if it was polled before.
future_completes(i, r) ==
    /\ pl_pc /= "done"
    /\ i \in 1..Len(pending)
    /\ pending[i].st = "running"
    /\ pending' = [pending EXCEPT ![i].st = r]
    /\ notified' = (notified \/ pending[i].polled)
    /\ UNCHANGED <<responses, finish, called_service, pl_pc, pl_result, sent, n_read,
                   last_flush, last_io, wakers, close_raised>>

\* The transport or the service wakes the task that one of its calls left
\* waiting.
wake(src) ==
    /\ pl_pc /= "done"
    /\ src \in wakers
    /\ wakers' = wakers \ {src}
    /\ notified' = TRUE
    /\ UNCHANGED <<pending, responses, finish, called_service, pl_pc, pl_result, sent,
                   n_read, last_flush, last_io, close_raised>>

\* pipeline.rs:88-96: one iteration of the loop driving the pending futures.
drive_pending ==
    /\ pl_pc = "drive"
    /\ LET i == poll_next(pending)
       IN IF i = 0
          THEN /\ pl_pc' = "send"
               /\ pending' = PollAll(pending)
               /\ last_io' = Io("pending.poll_next", "Pending")
               /\ UNCHANGED <<responses, pl_result>>
          ELSE /\ pending' = RemoveAt(pending, i)
               /\ IF pending[i].st = "ok"
                  THEN /\ responses' = Append(responses, pending[i].id)
                       /\ last_io' = Io("pending.poll_next", "Ok")
                       /\ UNCHANGED <<pl_pc, pl_result>>
                  ELSE /\ ReturnReady("ErrService")
                       /\ last_io' = Io("pending.poll_next", "Err")
                       /\ UNCHANGED responses
    /\ UNCHANGED <<finish, called_service, sent, n_read, last_flush, wakers, notified,
                   close_raised>>

\* pipeline.rs:99,104: VecDeque::pop_front, and the push_front that puts the
\* response back.  (Faulty variant: the response is put back at the end.)
put_back_last(q, e) == Append(q, e)
put_back(q, e) == <<e>> \o q

\* pipeline.rs:99-117: one iteration of the loop pushing responses into the
\* transport; ready is the result of transport.poll_ready, started that of
\* transport.start_send.
send_responses(ready, started) ==
    /\ pl_pc = "send"
    /\ IF responses = <<>>
       THEN /\ pl_pc' = "flush"
            /\ UNCHANGED <<responses, sent, pl_result, last_io, wakers>>
       ELSE LET response == Head(responses)
                rest == Tail(responses)
            IN CASE ready = "Pending" ->
                    /\ responses' = put_back(rest, response)
                    /\ pl_pc' = "flush"
                    /\ last_io' = Io("transport.poll_ready", "Pending")
                    /\ wakers' = wakers \cup {"sink"}
                    /\ UNCHANGED <<sent, pl_result>>
              [] ready = "Err" ->
                    /\ responses' = rest
                    /\ ReturnReady("ErrSend")
                    /\ last_io' = Io("transport.poll_ready", "Err")
                    /\ UNCHANGED <<sent, wakers>>
              [] OTHER ->
                    /\ responses' = rest
                    /\ last_io' = Io("transport.start_send", started)
                    /\ UNCHANGED wakers
                    /\ IF started = "Ok"
                       THEN /\ sent' = Append(sent, response)
                            /\ UNCHANGED <<pl_pc, pl_result>>
                       ELSE /\ ReturnReady("ErrSend")
                            /\ UNCHANGED sent
    /\ UNCHANGED <<pending, finish, called_service, n_read, last_flush, notified,
                   close_raised>>

\* pipeline.rs:120-136: transport.poll_flush, the termination test and the
\* yield when closing.
\* (Faulty variant: a closing pipeline does not yield at 132-134.)
flush_without_yield(flushed) ==
    /\ pl_pc = "flush"
    /\ last_flush' = flushed
    /\ last_io' = Io("transport.poll_flush", flushed)
    /\ wakers' = IF flushed = "Pending" THEN wakers \cup {"flush"} ELSE wakers
    /\ IF flushed = "Ok" /\ all_done(finish, responses, pending)
       THEN ReturnReady("Ok") /\ UNCHANGED called_service
       ELSE /\ called_service' = FALSE
            /\ pl_pc' = "service_ready"
            /\ UNCHANGED pl_result
    /\ UNCHANGED <<pending, responses, finish, sent, n_read, notified, close_raised>>
flush(flushed) ==
    /\ pl_pc = "flush"
    /\ last_flush' = flushed
    /\ last_io' = Io("transport.poll_flush", flushed)
    /\ wakers' = IF flushed = "Pending" THEN wakers \cup {"flush"} ELSE wakers
    /\ IF flushed = "Ok" /\ all_done(finish, responses, pending)
       THEN ReturnReady("Ok") /\ UNCHANGED called_service
       ELSE IF finish
       THEN ReturnPending /\ UNCHANGED called_service
       ELSE /\ called_service' = FALSE
            /\ pl_pc' = "service_ready"
            /\ UNCHANGED pl_result
    /\ UNCHANGED <<pending, responses, finish, sent, n_read, notified, close_raised>>

\* pipeline.rs:140-142: what follows service.poll_ready: ready! returns
\* Pending, an error ends the pipeline, readiness leads to the transport.
\* (Faulty variants: the transport is read although the service is not ready;
\* an error of the service is taken for not-ready.)
after_poll_ready_unchecked(ready) == IF ready = "Err" THEN "ReturnErr" ELSE "recv"
after_poll_ready_no_error(ready) == IF ready = "Ok" THEN "recv" ELSE "ReturnPending"
after_poll_ready(ready) ==
    CASE ready = "Pending" -> "ReturnPending"
      [] ready = "Err" -> "ReturnErr"
      [] OTHER -> "recv"

\* pipeline.rs:140-142: service.poll_ready under ready!.
service_poll_ready(ready) ==
    /\ pl_pc = "service_ready"
    /\ last_io' = Io("service.poll_ready", ready)
    /\ wakers' = IF ready = "Pending" THEN wakers \cup {"service"} ELSE wakers
    /\ CASE after_poll_ready(ready) = "ReturnPending" -> ReturnPending
         [] after_poll_ready(ready) = "ReturnErr" -> ReturnReady("ErrService")
         [] OTHER -> pl_pc' = "recv" /\ UNCHANGED pl_result
    /\ UNCHANGED <<pending, responses, finish, called_service, sent, n_read, last_flush,
                   notified, close_raised>>

\* pipeline.rs:170-179: after the receive loop.
AfterReceive(called, fin) ==
    IF called \/ fin
    THEN pl_pc' = "drive" /\ UNCHANGED pl_result
    ELSE ReturnPending

\* pipeline.rs:147-179: transport.poll_next under ready_break!, the service
\* call, the end of the stream and what follows the receive loop.
transport_poll_next(item) ==
    /\ pl_pc = "recv"
    /\ last_io' = Io("transport.poll_next", item)
    /\ wakers' = IF item = "Pending" THEN wakers \cup {"stream"} ELSE wakers
    /\ CASE item = "Pending" ->
                /\ AfterReceive(called_service, finish)
                /\ UNCHANGED <<pending, finish, called_service, n_read>>
         [] item = "Request" ->
                /\ n_read < MaxRequests
                /\ called_service' = TRUE
                /\ pending' = Append(pending, [id |-> n_read + 1, st |-> "running",
                                               polled |-> FALSE])
                /\ n_read' = n_read + 1
                /\ pl_pc' = "service_ready"
                /\ UNCHANGED <<finish, pl_result>>
         [] item = "Err" ->
                /\ called_service' = TRUE
                /\ ReturnReady("ErrReceive")
                /\ UNCHANGED <<pending, finish, n_read>>
         [] OTHER ->
                IF finish
                THEN /\ ReturnReady("Panic")
                     /\ UNCHANGED <<pending, finish, called_service, n_read>>
                ELSE /\ finish' = TRUE
                     /\ AfterReceive(called_service, TRUE)
                     /\ UNCHANGED <<pending, called_service, n_read>>
    /\ UNCHANGED <<responses, sent, last_flush, notified, close_raised>>

PollResults == {"Ok", "Pending", "Err"}

\* listener.rs:99-100: the close signal is raised.
raise_close ==
    /\ ~close_raised
    /\ close_raised' = TRUE
    /\ UNCHANGED <<pending, responses, finish, called_service, pl_pc, pl_result, sent,
                   n_read, last_flush, last_io, wakers, notified>>

\* listener.rs:217-244: the client task is Pipeline.then(..).select2(close).
\* select2 polls the pipeline first; when the pipeline has returned Pending
\* and the close future is complete, select2 completes and the pipeline is
\* dropped with whatever it holds.
select2_close ==
    /\ close_raised
    /\ pl_pc = "idle"
    /\ pl_result = "Pending"
    /\ ReturnReady("Dropped")
    /\ UNCHANGED <<pending, responses, finish, called_service, sent, n_read, last_flush,
                   last_io, wakers, notified, close_raised>>

\* ----------------------------------------------------------- BackendHealth
MaxTime == 4           \* the clock runs from 0 to MaxTime
MaxPeriod == 2         \* cooloff_period_ms is drawn from 0..MaxPeriod
MaxErrorLimit == 2     \* error_limit is drawn from 0..MaxErrorLimit
MaxErrors == 4         \* increment_error is called while error_count < MaxErrors

VARIABLES
    cooloff_enabled,    \* health.rs:27
    cooloff_period_ms,  \* health.rs:28
    error_limit,        \* health.rs:29
    error_count,        \* health.rs:30
    in_cooloff,         \* health.rs:31
    epoch,              \* health.rs:32
    cooloff_done_at,    \* health.rs:33
    delay,              \* health.rs:34: the deadline the timer is armed with
    now,                \* Instant::now()
    hl_ret              \* the call made last and what it returned

hlvars == <<cooloff_enabled, cooloff_period_ms, error_limit, error_count, in_cooloff,
            epoch, cooloff_done_at, delay, now, hl_ret>>

HlRet(op, value) == [op |-> op, value |-> value]

\* health.rs:38-56: the state BackendHealth::new returns.
BackendHealth_new(enabled, period_ms, limit) ==
    /\ cooloff_enabled = enabled
    /\ cooloff_period_ms = period_ms
    /\ error_limit = limit
    /\ error_count = 0
    /\ in_cooloff = FALSE
    /\ epoch = 0
    /\ now = 0
    /\ cooloff_done_at = now
    /\ delay = now
    /\ hl_ret = HlRet("new", TRUE)

\* A backend of any configuration.
InitHealth ==
    \E enabled \in BOOLEAN, period_ms \in 0..MaxPeriod, limit \in 0..MaxErrorLimit :
        BackendHealth_new(enabled, period_ms, limit)

\* Time passes between two calls.
tick ==
    /\ now < MaxTime
    /\ now' = now + 1
    /\ UNCHANGED <<cooloff_enabled, cooloff_period_ms, error_limit, error_count,
                   in_cooloff, epoch, cooloff_done_at, delay, hl_ret>>

\* health.rs:63: the test that the cool-off is over, at time t.
\* (Faulty variant: the cool-off is over at any time.)
cooloff_over_always(done_at, t) == TRUE
cooloff_over(done_at, t) == done_at < t

\* health.rs:58-72
\* (Faulty variant: leaving cool-off does not bump the epoch.)
is_healthy_same_epoch ==
    /\ IF ~cooloff_enabled \/ ~in_cooloff
       THEN /\ hl_ret' = HlRet("is_healthy", TRUE)
            /\ UNCHANGED <<error_count, in_cooloff>>
       ELSE IF cooloff_over(cooloff_done_at, now)
       THEN /\ error_count' = 0
            /\ in_cooloff' = FALSE
            /\ hl_ret' = HlRet("is_healthy", TRUE)
       ELSE /\ hl_ret' = HlRet("is_healthy", FALSE)
            /\ UNCHANGED <<error_count, in_cooloff>>
    /\ UNCHANGED <<cooloff_enabled, cooloff_period_ms, error_limit, cooloff_done_at,
                   delay, now, epoch>>
is_healthy ==
    /\ IF ~cooloff_enabled \/ ~in_cooloff
       THEN /\ hl_ret' = HlRet("is_healthy", TRUE)
            /\ UNCHANGED <<error_count, in_cooloff, epoch>>
       ELSE IF cooloff_over(cooloff_done_at, now)
       THEN /\ error_count' = 0
            /\ in_cooloff' = FALSE
            /\ epoch' = epoch + 1
            /\ hl_ret' = HlRet("is_healthy", TRUE)
       ELSE /\ hl_ret' = HlRet("is_healthy", FALSE)
            /\ UNCHANGED <<error_count, in_cooloff, epoch>>
    /\ UNCHANGED <<cooloff_enabled, cooloff_period_ms, error_limit, cooloff_done_at,
                   delay, now>>

\* health.rs:84: the test that puts the backend into cool-off.
\* (Faulty variant: the backend already in cool-off enters it again.)
over_threshold_again(count, limit, cooling) == count >= limit
over_threshold(count, limit, cooling) == count >= limit /\ ~cooling

\* health.rs:76-92
increment_error ==
    /\ error_count < MaxErrors
    /\ hl_ret' = HlRet("increment_error", TRUE)
    /\ IF ~cooloff_enabled
       THEN UNCHANGED <<error_count, in_cooloff, epoch, cooloff_done_at, delay>>
       ELSE /\ error_count' = error_count + 1
            /\ IF over_threshold(error_count', error_limit, in_cooloff)
               THEN /\ in_cooloff' = TRUE
                    /\ epoch' = epoch + 1
                    /\ cooloff_done_at' = now + cooloff_period_ms
                    /\ delay' = now + cooloff_period_ms
               ELSE UNCHANGED <<in_cooloff, epoch, cooloff_done_at, delay>>
    /\ UNCHANGED <<cooloff_enabled, cooloff_period_ms, error_limit, now>>

\* health.rs:94-97: the timer is ready once its deadline is reached.
poll_health ==
    /\ hl_ret' = HlRet("poll_health", now >= delay)
    /\ UNCHANGED <<cooloff_enabled, cooloff_period_ms, error_limit, error_count,
                   in_cooloff, epoch, cooloff_done_at, delay, now>>

\* ------------------------------------------------------------ ShadowRouter
\* Two runs of one router are carried side by side.  They are given the same
\* batches and the same default pool; the shadow pool, its futures and the
\* drainer task are each run's own.
MaxCalls == 2          \* ShadowRouter::call is made at most MaxCalls times

Runs == {1, 2}

VARIABLES
    requests,        \* the batches ShadowRouter::call was given, in call order
    default_ready,   \* default_inner.poll_ready returned Ready and no call used it
    sr_closed,       \* every ShadowRouter (each holds a sender of noops) is dropped
    sr_alive,        \* per run: the task calling the router has not panicked
    shadow_ready,    \* per run: shadow_inner would report ready if it were asked
    default_calls,   \* per run: the batches given to default_inner.call
    shadow_calls,    \* per run: the batches given to shadow_inner.call
    shadow_futs,     \* per run: the state of the future of each shadow call
    noops,           \* per run: the futures in the channel to the ShadowWorker
    worker,          \* per run: the ShadowWorker: [inner, should_close, done]
    returned         \* per run: what each ShadowRouter::call returned

srvars == <<requests, default_ready, sr_closed, sr_alive, shadow_ready, default_calls,
            shadow_calls, shadow_futs, noops, worker, returned>>

\* EnqueuedRequest::new / EnqueuedRequest::without_response (shadow.rs:155,158)
EnqueuedRequest_new(id, msg) == [id |-> id, msg |-> msg, has_response |-> TRUE]
EnqueuedRequest_without_response(msg) == [id |-> 0, msg |-> msg, has_response |-> FALSE]

\* The batches given to the router: (slot id, message) pairs.
AssignedBatches ==
    { <<[id |-> 0, msg |-> "SET"]>>,
      <<[id |-> 1, msg |-> "GET"], [id |-> 2, msg |-> "SET"]>> }

\* shadow.rs:61-68 and 120-133: ShadowRouter::new and the worker it spawns.
InitShadow ==
    /\ requests = <<>>
    /\ default_ready = FALSE
    /\ sr_closed = FALSE
    /\ sr_alive = [r \in Runs |-> TRUE]
    /\ shadow_ready = [r \in Runs |-> TRUE]
    /\ default_calls = [r \in Runs |-> <<>>]
    /\ shadow_calls = [r \in Runs |-> <<>>]
    /\ shadow_futs = [r \in Runs |-> <<>>]
    /\ noops = [r \in Runs |-> <<>>]
    /\ worker = [r \in Runs |-> [inner |-> {}, should_close |-> FALSE, done |-> FALSE]]
    /\ returned = [r \in Runs |-> <<>>]

\* shadow.rs:147-149: readiness is that of the default pool alone.
ShadowRouter_poll_ready(ready) ==
    /\ ~sr_closed
    /\ \E r \in Runs : sr_alive[r]
    /\ default_ready' = (ready = "Ok")
    /\ UNCHANGED <<requests, sr_closed, sr_alive, shadow_ready, default_calls,
                   shadow_calls, shadow_futs, noops, worker, returned>>

\* The shadow pool of run r fills up or drains (its backends are slow or fast).
shadow_pool_readiness(r, ready) ==
    /\ shadow_ready[r] /= ready
    /\ shadow_ready' = [shadow_ready EXCEPT ![r] = ready]
    /\ UNCHANGED <<requests, default_ready, sr_closed, sr_alive, default_calls,
                   shadow_calls, shadow_futs, noops, worker, returned>>

\* shadow.rs:160: shadow_inner.call, made without a poll_ready of shadow_inner
\* (shadow.rs:147-149).  A Service that is ready returns a future; one that is
\* not ready and was not asked may return a future or panic.
shadow_inner_call(ready) == IF ready THEN {"future"} ELSE {"future", "panic"}

\* shadow.rs:152-156
shadow_reqs(req) == [i \in 1..Len(req) |-> EnqueuedRequest_without_response(req[i].msg)]

\* shadow.rs:158
default_reqs(req) == [i \in 1..Len(req) |-> EnqueuedRequest_new(req[i].id, req[i].msg)]

\* shadow.rs:161: UnboundedSender::try_send; the result is ignored, and a future
\* that cannot be sent (the receiver is gone) is dropped.
try_send(ch, w, fut) == IF w.done THEN ch ELSE Append(ch, fut)

\* shadow.rs:151-164: ShadowRouter::call on req, in run r, where the shadow
\* pool answers with outcome o.
CallInRun(r, req, o) ==
    IF ~sr_alive[r]
    THEN [alive |-> FALSE, dcalls |-> default_calls[r], scalls |-> shadow_calls[r],
          futs |-> shadow_futs[r], ch |-> noops[r], ret |-> returned[r]]
    ELSE IF o = "panic"
    THEN [alive |-> FALSE, dcalls |-> default_calls[r], scalls |-> shadow_calls[r],
          futs |-> shadow_futs[r], ch |-> noops[r],
          ret |-> Append(returned[r], [kind |-> "panic", future |-> 0])]
    ELSE [alive |-> TRUE,
          dcalls |-> Append(default_calls[r], default_reqs(req)),
          scalls |-> Append(shadow_calls[r], shadow_reqs(req)),
          futs |-> Append(shadow_futs[r], "running"),
          ch |-> try_send(noops[r], worker[r], Len(shadow_calls[r]) + 1),
          ret |-> Append(returned[r],
                         [kind |-> "default", future |-> Len(default_calls[r]) + 1])]

ShadowRouter_call(req) ==
    /\ ~sr_closed
    /\ default_ready
    /\ Len(requests) < MaxCalls
    /\ \E r \in Runs : sr_alive[r]
    /\ \E o \in [Runs -> {"future", "panic"}] :
          /\ \A r \in Runs : o[r] \in shadow_inner_call(shadow_ready[r])
          /\ sr_alive' = [r \in Runs |-> CallInRun(r, req, o[r]).alive]
          /\ default_calls' = [r \in Runs |-> CallInRun(r, req, o[r]).dcalls]
          /\ shadow_calls' = [r \in Runs |-> CallInRun(r, req, o[r]).scalls]
          /\ shadow_futs' = [r \in Runs |-> CallInRun(r, req, o[r]).futs]
          /\ noops' = [r \in Runs |-> CallInRun(r, req, o[r]).ch]
          /\ returned' = [r \in Runs |-> CallInRun(r, req, o[r]).ret]
    /\ requests' = Append(requests, req)
    /\ default_ready' = FALSE
    /\ UNCHANGED <<sr_closed, shadow_ready, worker>>

\* A shadow future of run r completes, with a response or a failure.
shadow_future_completes(r, i, result) ==
    /\ i \in 1..Len(shadow_futs[r])
    /\ shadow_futs[r][i] = "running"
    /\ shadow_futs' = [shadow_futs EXCEPT ![r][i] = result]
    /\ UNCHANGED <<requests, default_ready, sr_closed, sr_alive, shadow_ready,
                   default_calls, shadow_calls, noops, worker, returned>>

\* The last ShadowRouter is dropped: the channel to the worker closes.
ShadowRouter_drop ==
    /\ ~sr_closed
    /\ sr_closed' = TRUE
    /\ UNCHANGED <<requests, default_ready, sr_alive, shadow_ready, default_calls,
                   shadow_calls, shadow_futs, noops, worker, returned>>

SeqToSet(s) == {s[i] : i \in 1..Len(s)}

\* shadow.rs:77-110: ShadowWorker::poll in run r: take every future out of the
\* channel, note that the channel is closed, drive the futures and drop those
\* that are complete, whatever their result.
ShadowWorker_poll(r) ==
    /\ ~worker[r].done
    /\ LET w == worker[r]
           taken == IF w.should_close THEN {} ELSE SeqToSet(noops[r])
           closing == w.should_close \/ sr_closed
           driven == {i \in w.inner \cup taken : shadow_futs[r][i] = "running"}
       IN /\ noops' = [noops EXCEPT ![r] = IF w.should_close THEN noops[r] ELSE <<>>]
          /\ worker' = [worker EXCEPT ![r] = [inner |-> driven,
                                              should_close |-> closing,
                                              done |-> closing /\ driven = {}]]
    /\ UNCHANGED <<requests, default_ready, sr_closed, sr_alive, shadow_ready,
                   default_calls, shadow_calls, shadow_futs, returned>>

\* ------------------------------------------- Backend and BackendSupervisor
MaxConns == 2          \* conn_limit
MaxFailures == 2       \* connections fail while fewer than MaxFailures have
MaxSubmits == 2        \* batches submitted to the backend

VARIABLES
    conn_count,     \* backend.rs:153
    conn_limit,     \* backend.rs:154
    command_rx,     \* backend.rs:149: the BackendCommand::Error values queued
    close,          \* backend.rs:156: the shutdown signal has been raised
    sv_pc,          \* the supervisor's position in poll, "idle" between polls
    updates_tx,     \* backend.rs:148: an update has been sent
    conns,          \* the connections spawned so far, in spawn order
    work_queue,     \* backend.rs:271: the batches submitted and not yet taken
    wq_closed,      \* the Backend, and with it the queue's producer, is gone
    n_submitted,    \* the batches submitted so far
    n_sockets,      \* the sockets TcpStream::connect has been asked for
    n_decrements,   \* how often backend.rs:180 ran
    completed       \* the batches whose operation returned Ready (backend.rs:81)

bkvars == <<conn_count, conn_limit, command_rx, close, sv_pc, updates_tx, conns,
            work_queue, wq_closed, n_submitted, n_sockets, n_decrements, completed>>

\* Option<TcpStream> and Option<P::Future>: sockets and batches are numbered
\* from 1; an operation owns the batch and the socket handed to process.
NoSocket == 0
NoOp == [batch |-> 0, socket |-> NoSocket]
Op(batch, socket) == [batch |-> batch, socket |-> socket]

\* backend.rs:196-203: a fresh BackendConnection; st is "running" until poll
\* returns Err ("failed") or Ready ("done").
BackendConnection_new == [socket |-> NoSocket, current |-> NoOp, st |-> "running"]

\* backend.rs:234-250 (new_supervisor) and 314-319 (Backend::new)
InitBackend ==
    /\ conn_count = 0
    /\ conn_limit = MaxConns
    /\ command_rx = 0
    /\ close = FALSE
    /\ sv_pc = "idle"
    /\ updates_tx = FALSE
    /\ conns = <<>>
    /\ work_queue = <<>>
    /\ wq_closed = FALSE
    /\ n_submitted = 0
    /\ n_sockets = 0
    /\ n_decrements = 0
    /\ completed = {}

Failures == Cardinality({c \in 1..Len(conns) : conns[c].st = "failed"})

\* backend.rs:325
Backend_submit ==
    /\ ~wq_closed
    /\ n_submitted < MaxSubmits
    /\ n_submitted' = n_submitted + 1
    /\ work_queue' = Append(work_queue, n_submitted + 1)
    /\ UNCHANGED <<conn_count, conn_limit, command_rx, close, sv_pc, updates_tx, conns,
                   wq_closed, n_sockets, n_decrements, completed>>

\* backend.rs:332-341: the Backend is dropped and the work queue closes.
Backend_drop ==
    /\ ~wq_closed
    /\ wq_closed' = TRUE
    /\ UNCHANGED <<conn_count, conn_limit, command_rx, close, sv_pc, updates_tx, conns,
                   work_queue, n_submitted, n_sockets, n_decrements, completed>>

\* The shutdown signal is raised.
raise_shutdown ==
    /\ ~close
    /\ close' = TRUE
    /\ UNCHANGED <<conn_count, conn_limit, command_rx, sv_pc, updates_tx, conns,
                   work_queue, wq_closed, n_submitted, n_sockets, n_decrements, completed>>

\* Worker::poll: the head of the queue, the end of a closed and empty queue,
\* or nothing yet.
Worker_poll(queue, closed) ==
    IF queue # <<>> THEN "Some" ELSE IF closed THEN "None" ELSE "NotReady"

\* backend.rs:90 and 111: the connection tells the supervisor that it failed.
\* (Faulty variant: it terminates without a word.)
notify_nothing(cmds) == cmds
notify_supervisor(cmds) == cmds + 1

\* backend.rs:108: a connection that finds the work queue closed returns
\* Ready and sends nothing.
\* (Faulty variant: it reports itself as failed.)
clean_exit_notifies(cmds) == cmds + 1
clean_exit(cmds) == cmds

\* backend.rs:83-84: the operation gave the socket back.
reclaim(conn, socket) == [conn EXCEPT !.socket = socket, !.current = NoOp]

\* backend.rs:100-103: the socket the next operation runs on is the one the
\* connection holds, or else a new one (numbered fresh).
\* (Faulty variant: always a new one.)
socket_future_connect(conn, fresh) == fresh
socket_future(conn, fresh) == IF conn.socket # NoSocket THEN conn.socket ELSE fresh

\* backend.rs:100 and 105-106: Option::take empties the socket field, the
\* operation is stored as current.
\* (Faulty variant: the connection keeps its socket next to the operation.)
start_keeping_socket(conn, batch, socket) == [conn EXCEPT !.current = Op(batch, socket)]
start(conn, batch, socket) == [conn EXCEPT !.socket = NoSocket, !.current = Op(batch, socket)]

\* backend.rs:74-116, one pass of the loop body of connection c: the operation
\* in flight, if any, is polled with result task (79-94), and unless that
\* returned, the work queue is polled (98-114); fail says that the worker
\* reports an error.  A pass that stores a new operation is followed by the
\* next pass of the loop.
BackendConnection_poll(c, task, fail) ==
    /\ c \in 1..Len(conns)
    /\ conns[c].st = "running"
    /\ LET conn == conns[c]
           polled == conn.current # NoOp
           reclaimed == IF polled /\ task = "Ready"
                        THEN reclaim(conn, conn.current.socket) ELSE conn
           work == IF fail THEN "Err" ELSE Worker_poll(work_queue, wq_closed)
           fresh == n_sockets + 1
           socket == socket_future(reclaimed, fresh)
       IN  IF polled /\ task = "NotReady"
           THEN UNCHANGED <<conns, command_rx, work_queue, n_sockets>>
           ELSE IF polled /\ task = "Err"
           THEN /\ Failures < MaxFailures
                /\ command_rx' = notify_supervisor(command_rx)
                /\ conns' = [conns EXCEPT ![c] = [conn EXCEPT !.current = NoOp, !.st = "failed"]]
                /\ UNCHANGED <<work_queue, n_sockets>>
           ELSE IF work = "Some"
           THEN /\ conns' = [conns EXCEPT ![c] = start(reclaimed, Head(work_queue), socket)]
                /\ work_queue' = Tail(work_queue)
                /\ n_sockets' = IF socket = fresh THEN fresh ELSE n_sockets
                /\ UNCHANGED command_rx
           ELSE IF work = "None"
           THEN /\ conns' = [conns EXCEPT ![c] = [reclaimed EXCEPT !.st = "done"]]
                /\ command_rx' = clean_exit(command_rx)
                /\ UNCHANGED <<work_queue, n_sockets>>
           ELSE IF work = "NotReady"
           THEN /\ conns' = [conns EXCEPT ![c] = reclaimed]
                /\ UNCHANGED <<command_rx, work_queue, n_sockets>>
           ELSE /\ Failures < MaxFailures
                /\ command_rx' = notify_supervisor(command_rx)
                /\ conns' = [conns EXCEPT ![c] = [reclaimed EXCEPT !.st = "failed"]]
                /\ UNCHANGED <<work_queue, n_sockets>>
    /\ completed' = IF conns[c].current # NoOp /\ task = "Ready"
                    THEN completed \cup {conns[c].current.batch} ELSE completed
    /\ UNCHANGED <<conn_count, conn_limit, close, sv_pc, updates_tx, wq_closed,
                   n_submitted, n_decrements>>

\* backend.rs:168-172: the supervisor is polled; a raised shutdown signal ends
\* it, otherwise it goes on to its commands.
BackendSupervisor_poll ==
    /\ sv_pc = "idle"
    /\ sv_pc' = IF close THEN "closed" ELSE "commands"
    /\ UNCHANGED <<conn_count, conn_limit, command_rx, close, updates_tx, conns,
                   work_queue, wq_closed, n_submitted, n_sockets, n_decrements, completed>>

\* backend.rs:180; the count is a usize, and never 0 here: it counts the
\* connections spawned less the commands taken, and a connection sends one
\* command at most.
decrement(count) == count - 1

\* backend.rs:175-188, one turn of the loop: a queued command takes one
\* connection off the count and records one error; with none queued the loop
\* is left.  (The supervisor holds a sender itself, backend.rs:150, so the
\* channel never ends.)
process_command ==
    /\ sv_pc = "commands"
    /\ IF command_rx > 0
       THEN /\ command_rx' = command_rx - 1
            /\ conn_count' = decrement(conn_count)
            /\ increment_error
            /\ n_decrements' = n_decrements + 1
            /\ UNCHANGED sv_pc
       ELSE /\ sv_pc' = "health"
            /\ UNCHANGED <<command_rx, conn_count, n_decrements>>
            /\ UNCHANGED hlvars
    /\ UNCHANGED <<conn_limit, close, updates_tx, conns, work_queue, wq_closed,
                   n_submitted, n_sockets, completed>>

\* backend.rs:190-192
check_health ==
    /\ sv_pc = "health"
    /\ is_healthy
    /\ updates_tx' = (updates_tx \/ ~hl_ret'.value)
    /\ sv_pc' = "spawn"
    /\ UNCHANGED <<conn_count, conn_limit, command_rx, close, conns, work_queue,
                   wq_closed, n_submitted, n_sockets, n_decrements, completed>>

\* backend.rs:195: how many connections the loop spawns.
\* (Faulty variant: at most one in a pass.)
missing_one(count, limit) == IF count < limit THEN 1 ELSE 0
\* (Faulty variant: conn_limit in every pass.)
missing_limit(count, limit) == limit
missing(count, limit) == IF count < limit THEN limit - count ELSE 0

\* backend.rs:195-210: the connections missing are spawned and poll returns
\* NotReady.
spawn_connections ==
    /\ sv_pc = "spawn"
    /\ LET n == missing(conn_count, conn_limit)
       IN  /\ conns' = conns \o [i \in 1..n |-> BackendConnection_new]
           /\ conn_count' = conn_count + n
    /\ sv_pc' = "idle"
    /\ UNCHANGED <<conn_limit, command_rx, close, updates_tx, work_queue, wq_closed,
                   n_submitted, n_sockets, n_decrements, completed>>

\* backend.rs:327: the pool asks whether the backend is healthy.
Backend_is_healthy ==
    /\ is_healthy
    /\ UNCHANGED bkvars

\* ------------------------------------------------------- redis: fan-out
MaxMessages == 3       \* messages in a batch
MaxBackends == 2       \* backends of the pool, numbered from 0
MaxKey == 2            \* keys are 0..MaxKey

VARIABLES
    fo_pc,          \* "idle" before generate_batched_redis_writes, "called" after,
                    \* "done" once every future it returned has resolved
    fo_messages,    \* redis.rs:65: the batch the function was called with
    subs            \* one entry per sub-batch, in the order of submission:
                    \* the backend, the (id, message) pairs submitted, the
                    \* stage of the backend's operation, what it wrote and
                    \* read on its socket, whether the socket was given back,
                    \* and what the response future resolved to

fovars == <<fo_pc, fo_messages, subs>>

\* RedisMessage: a command is the sequence of its arguments; a reply names
\* the command it answers.
Command(key) == <<"GET", key>>
Reply(msg) == <<"reply", msg>>
ErrorReply == <<"error">>
RedisBatches ==
    UNION {[1..n -> {Command(k) : k \in 0..MaxKey}] : n \in 0..MaxMessages}

InitFanout ==
    /\ fo_pc = "idle"
    /\ fo_messages = <<>>
    /\ subs = <<>>

\* redis.rs:116-134: the key is the second argument, or the first of a
\* command with fewer than two.
get_message_key(msg) == msg[IF Len(msg) < 2 THEN 1 ELSE 2]

\* BackendPool::get_backend_index: the pool's key-to-shard function.
get_backend_index(key) == key % MaxBackends

\* redis.rs:77-78: the pair is pushed at the end of its backend's list.
\* (Faulty variant: at the front.)
entry_push_front(batched_msgs, pair) == <<pair>> \o batched_msgs
entry_push(batched_msgs, pair) == Append(batched_msgs, pair)

\* redis.rs:69-81: the loop that groups the messages by backend index; i is
\* the id of the first message left, assigned_msgs the map built so far.
RECURSIVE assign_msgs(_, _, _)
assign_msgs(messages, i, assigned_msgs) ==
    IF messages = <<>>
    THEN assigned_msgs
    ELSE LET msg == Head(messages)
             backend_idx == get_backend_index(get_message_key(msg))
             batched_msgs == IF backend_idx \in DOMAIN assigned_msgs
                             THEN assigned_msgs[backend_idx] ELSE <<>>
         IN  assign_msgs(Tail(messages), i + 1,
                   [b \in DOMAIN assigned_msgs \cup {backend_idx} |->
                        IF b = backend_idx THEN entry_push(batched_msgs, <<i, msg>>)
                                           ELSE assigned_msgs[b]])

\* redis.rs:86: a HashMap is iterated in an order its hasher decides, any
\* order of its keys.
IterationOrders(map) ==
    {o \in [1..Cardinality(DOMAIN map) -> DOMAIN map] :
        \A j, k \in DOMAIN o : j # k => o[j] # o[k]}

\* redis.rs:87-90
\* (Faulty variant: the first id only.)
msg_indexes_head(msgs) == IF msgs = <<>> THEN <<>> ELSE <<msgs[1][1]>>
msg_indexes(msgs) == [k \in 1..Len(msgs) |-> msgs[k][1]]

\* redis.rs:107-114
to_vectored_error_response(indexes) == [k \in 1..Len(indexes) |-> <<indexes[k], ErrorReply>>]

\* redis.rs:92-94: the sub-batch as it is submitted to its backend.
Submitted(backend_idx, msgs) ==
    [backend_idx |-> backend_idx, msgs |-> msgs, stage |-> "submitted",
     written |-> <<>>, resps |-> <<>>, socket_back |-> FALSE,
     resolved |-> FALSE, response |-> <<>>]

\* redis.rs:63-105
generate_batched_redis_writes(messages) ==
    /\ fo_pc = "idle"
    /\ LET assigned_msgs == assign_msgs(messages, 0, <<>>)
       IN  \E order \in IterationOrders(assigned_msgs) :
               subs' = [j \in 1..Len(order) |-> Submitted(order[j], assigned_msgs[order[j]])]
    /\ fo_messages' = messages
    /\ fo_pc' = "called"

\* redis.rs:41: the stream future gives the backend's socket.
transform_connect(j) ==
    /\ j \in 1..Len(subs)
    /\ subs[j].stage = "submitted"
    /\ subs' = [subs EXCEPT ![j].stage = "connected"]
    /\ UNCHANGED <<fo_pc, fo_messages>>

\* redis.rs:32-39
split_msgs(req) == [k \in 1..Len(req) |-> req[k][2]]
split_ids(req) == [k \in 1..Len(req) |-> req[k][1]]

\* redis::write_messages: what is on the wire once the write has completed,
\* all the messages in their order.
write_messages(msgs) == msgs

\* redis.rs:42-45
transform_write(j) ==
    /\ j \in 1..Len(subs)
    /\ subs[j].stage = "connected"
    /\ subs' = [subs EXCEPT ![j].stage = "written",
                            ![j].written = write_messages(split_msgs(subs[j].msgs))]
    /\ UNCHANGED <<fo_pc, fo_messages>>

\* redis.rs:48: the number of responses asked for.
\* (Faulty variant: one fewer.)
read_count_short(msg_len) == IF msg_len > 0 THEN msg_len - 1 ELSE 0
read_count(msg_len) == msg_len

\* redis::read_messages(server, count) with resps read so far: it reads the
\* next response off the socket, the server answering the requests written
\* in their order, until it has count of them.
read_messages(written, resps, count) ==
    IF Len(resps) < count THEN Append(resps, Reply(written[Len(resps) + 1])) ELSE resps

\* redis.rs:46-49: one step of the read stage, which ends when nothing is
\* left to read.
transform_read(j) ==
    /\ j \in 1..Len(subs)
    /\ subs[j].stage = "written"
    /\ LET sub == subs[j]
           resps == read_messages(sub.written, sub.resps, read_count(Len(sub.msgs)))
       IN  IF resps # sub.resps
           THEN subs' = [subs EXCEPT ![j].resps = resps]
           ELSE subs' = [subs EXCEPT ![j].stage = "read"]
    /\ UNCHANGED <<fo_pc, fo_messages>>

\* redis.rs:52-55: Iterator::zip stops with the shorter of the two.
zip(ids, resps) ==
    [k \in 1..(IF Len(ids) < Len(resps) THEN Len(ids) ELSE Len(resps)) |-> <<ids[k], resps[k]>>]

\* redis.rs:50-58 and 94-96: the ids are zipped with the responses, the
\* socket is given back, and the response future resolves to the result.
transform_assemble(j) ==
    /\ j \in 1..Len(subs)
    /\ subs[j].stage = "read"
    /\ subs' = [subs EXCEPT ![j].stage = "done",
                            ![j].socket_back = TRUE,
                            ![j].resolved = TRUE,
                            ![j].response = zip(split_ids(subs[j].msgs), subs[j].resps)]
    /\ UNCHANGED <<fo_pc, fo_messages>>

\* redis.rs:96 and 98-99: the operation fails at some stage (connect, write
\* or read), or the submission itself does; either way the response future
\* resolves to an error reply for each id of the sub-batch.
transform_fails(j) ==
    /\ j \in 1..Len(subs)
    /\ subs[j].stage \in {"submitted", "connected", "written"}
    /\ subs' = [subs EXCEPT ![j].stage = "failed",
                            ![j].resolved = TRUE,
                            ![j].response = to_vectored_error_response(msg_indexes(subs[j].msgs))]
    /\ UNCHANGED <<fo_pc, fo_messages>>

\* redis.rs:66 and 104: the futures returned have all resolved, and the
\* caller has the result of each.
fanout_done ==
    /\ fo_pc = "called"
    /\ \A j \in 1..Len(subs) : subs[j].resolved
    /\ fo_pc' = "done"
    /\ UNCHANGED <<fo_messages, subs>>

\* --------------------------------------------------------- specifications
vars == <<mqvars, plvars, hlvars, srvars, bkvars, fovars>>

Init ==
    /\ InitMQ
    /\ InitPipeline
    /\ BackendHealth_new(TRUE, MaxPeriod, MaxErrorLimit)
    /\ InitShadow
    /\ InitBackend
    /\ InitFanout

NextShadow ==
    \/ (\E ready \in PollResults : ShadowRouter_poll_ready(ready))
            /\ UNCHANGED <<mqvars, plvars, hlvars, bkvars, fovars>>
    \/ (\E r \in Runs, ready \in BOOLEAN : shadow_pool_readiness(r, ready))
            /\ UNCHANGED <<mqvars, plvars, hlvars, bkvars, fovars>>
    \/ (\E req \in AssignedBatches : ShadowRouter_call(req))
            /\ UNCHANGED <<mqvars, plvars, hlvars, bkvars, fovars>>
    \/ (\E r \in Runs, i \in 1..MaxCalls, result \in {"ok", "err"} :
            shadow_future_completes(r, i, result))
            /\ UNCHANGED <<mqvars, plvars, hlvars, bkvars, fovars>>
    \/ ShadowRouter_drop /\ UNCHANGED <<mqvars, plvars, hlvars, bkvars, fovars>>
    \/ (\E r \in Runs : ShadowWorker_poll(r)) /\ UNCHANGED <<mqvars, plvars, hlvars, bkvars, fovars>>

SpecShadow == Init /\ [][NextShadow]_vars

NextHealth ==
    \/ tick /\ UNCHANGED <<mqvars, plvars, srvars, bkvars, fovars>>
    \/ is_healthy /\ UNCHANGED <<mqvars, plvars, srvars, bkvars, fovars>>
    \/ increment_error /\ UNCHANGED <<mqvars, plvars, srvars, bkvars, fovars>>
    \/ poll_health /\ UNCHANGED <<mqvars, plvars, srvars, bkvars, fovars>>

\* A backend of any configuration, next to the other subsystems as
\* constructed.
InitAnyHealth == InitMQ /\ InitPipeline /\ InitHealth /\ InitShadow /\ InitBackend /\ InitFanout

SpecHealth == InitAnyHealth /\ [][NextHealth]_vars

NextPipeline ==
    \/ poll /\ UNCHANGED <<mqvars, hlvars, srvars, bkvars, fovars>>
    \/ (\E i \in 1..MaxRequests, r \in {"ok", "err"} : future_completes(i, r))
            /\ UNCHANGED <<mqvars, hlvars, srvars, bkvars, fovars>>
    \/ drive_pending /\ UNCHANGED <<mqvars, hlvars, srvars, bkvars, fovars>>
    \/ (\E ready \in PollResults, started \in {"Ok", "Err"} : send_responses(ready, started))
            /\ UNCHANGED <<mqvars, hlvars, srvars, bkvars, fovars>>
    \/ (\E flushed \in PollResults : flush(flushed)) /\ UNCHANGED <<mqvars, hlvars, srvars, bkvars, fovars>>
    \/ (\E ready \in PollResults : service_poll_ready(ready)) /\ UNCHANGED <<mqvars, hlvars, srvars, bkvars, fovars>>
    \/ (\E item \in {"Pending", "Request", "Err", "End"} : transport_poll_next(item))
            /\ UNCHANGED <<mqvars, hlvars, srvars, bkvars, fovars>>
    \/ (\E src \in {"sink", "flush", "service", "stream"} : wake(src))
            /\ UNCHANGED <<mqvars, hlvars, srvars, bkvars, fovars>>

SpecPipeline == Init /\ [][NextPipeline]_vars

\* What the pipeline leaves alone.
NotPipeline == <<mqvars, hlvars, srvars, bkvars, fovars>>

\* The scheduling of the client task: a notified task is polled, and a poll
\* runs on to its return.
PipelineRuns ==
    /\ WF_vars(notified /\ poll /\ UNCHANGED NotPipeline)
    /\ WF_vars(drive_pending /\ UNCHANGED NotPipeline)
    /\ WF_vars((\E ready \in PollResults, started \in {"Ok", "Err"} :
                    send_responses(ready, started)) /\ UNCHANGED NotPipeline)
    /\ WF_vars((\E flushed \in PollResults : flush(flushed)) /\ UNCHANGED NotPipeline)
    /\ WF_vars((\E ready \in PollResults : service_poll_ready(ready))
                    /\ UNCHANGED NotPipeline)
    /\ WF_vars((\E item \in {"Pending", "Request", "Err", "End"} :
                    transport_poll_next(item)) /\ UNCHANGED NotPipeline)

\* Every service future in flight completes in the end; a sink that reported
\* not-ready wakes the task, and a sink asked again and again is ready, takes
\* the response and flushes in the end.
FuturesComplete ==
    \A i \in 1..MaxRequests : WF_vars(future_completes(i, "ok") /\ UNCHANGED NotPipeline)

SinkUnclogs ==
    /\ WF_vars(wake("sink") /\ UNCHANGED NotPipeline)
    /\ WF_vars(wake("flush") /\ UNCHANGED NotPipeline)
    /\ SF_vars(send_responses("Ok", "Ok") /\ UNCHANGED NotPipeline)
    /\ SF_vars(flush("Ok") /\ UNCHANGED NotPipeline)

SpecPipelineLive ==
    Init /\ [][NextPipeline]_vars /\ PipelineRuns /\ FuturesComplete /\ SinkUnclogs

\* listener.rs:187-252: a client task under the close signal.
NextClient ==
    \/ NextPipeline
    \/ raise_close /\ UNCHANGED NotPipeline
    \/ select2_close /\ UNCHANGED NotPipeline

SpecClient == Init /\ [][NextClient]_vars

NextMQ ==
    \/ (\E msgs \in CommandBatches : enqueue(msgs)) /\ UNCHANGED <<plvars, hlvars, srvars, bkvars, fovars>>
    \/ fulfill /\ UNCHANGED <<plvars, hlvars, srvars, bkvars, fovars>>
    \/ (\E e \in FulfillEntries : fulfill_loop(e)) /\ UNCHANGED <<plvars, hlvars, srvars, bkvars, fovars>>
    \/ fulfill_return /\ UNCHANGED <<plvars, hlvars, srvars, bkvars, fovars>>
    \/ get_sendable_bufs /\ UNCHANGED <<plvars, hlvars, srvars, bkvars, fovars>>
    \/ get_sendable_bufs_loop /\ UNCHANGED <<plvars, hlvars, srvars, bkvars, fovars>>

SpecMQ == Init /\ [][NextMQ]_vars

\* The queue alone over a processor of any kind: fragment_messages returns
\* any pieces or fails.
NextMQAny ==
    \/ (\E fmsgs \in AnyFragments : enqueue_any(fmsgs)) /\ UNCHANGED <<plvars, hlvars, srvars, bkvars, fovars>>
    \/ enqueue_fails /\ UNCHANGED <<plvars, hlvars, srvars, bkvars, fovars>>
    \/ fulfill /\ UNCHANGED <<plvars, hlvars, srvars, bkvars, fovars>>
    \/ (\E e \in FulfillEntries : fulfill_loop(e)) /\ UNCHANGED <<plvars, hlvars, srvars, bkvars, fovars>>
    \/ fulfill_return /\ UNCHANGED <<plvars, hlvars, srvars, bkvars, fovars>>
    \/ get_sendable_bufs /\ UNCHANGED <<plvars, hlvars, srvars, bkvars, fovars>>
    \/ get_sendable_bufs_loop /\ UNCHANGED <<plvars, hlvars, srvars, bkvars, fovars>>

SpecMQAny == Init /\ [][NextMQAny]_vars

\* A backend with its supervisor, its connections and its health; the clock
\* runs, and the pool asks for the backend's health at any time.
NextBackend ==
    \/ Backend_submit /\ UNCHANGED <<mqvars, plvars, hlvars, srvars, fovars>>
    \/ Backend_drop /\ UNCHANGED <<mqvars, plvars, hlvars, srvars, fovars>>
    \/ raise_shutdown /\ UNCHANGED <<mqvars, plvars, hlvars, srvars, fovars>>
    \/ (\E c \in 1..(MaxConns + MaxFailures), task \in {"Ready", "NotReady", "Err"},
            fail \in BOOLEAN : BackendConnection_poll(c, task, fail))
            /\ UNCHANGED <<mqvars, plvars, hlvars, srvars, fovars>>
    \/ BackendSupervisor_poll /\ UNCHANGED <<mqvars, plvars, hlvars, srvars, fovars>>
    \/ process_command /\ UNCHANGED <<mqvars, plvars, srvars, fovars>>
    \/ check_health /\ UNCHANGED <<mqvars, plvars, srvars, fovars>>
    \/ spawn_connections /\ UNCHANGED <<mqvars, plvars, hlvars, srvars, fovars>>
    \/ Backend_is_healthy /\ UNCHANGED <<mqvars, plvars, srvars, fovars>>
    \/ tick /\ UNCHANGED <<mqvars, plvars, srvars, bkvars, fovars>>

SpecBackend == Init /\ [][NextBackend]_vars

\* The fan-out of one batch, the backends working on their sub-batches in
\* any interleaving.
NextFanout ==
    \/ (\E messages \in RedisBatches : generate_batched_redis_writes(messages))
            /\ UNCHANGED <<mqvars, plvars, hlvars, srvars, bkvars>>
    \/ (\E j \in 1..MaxBackends : transform_connect(j))
            /\ UNCHANGED <<mqvars, plvars, hlvars, srvars, bkvars>>
    \/ (\E j \in 1..MaxBackends : transform_write(j))
            /\ UNCHANGED <<mqvars, plvars, hlvars, srvars, bkvars>>
    \/ (\E j \in 1..MaxBackends : transform_read(j))
            /\ UNCHANGED <<mqvars, plvars, hlvars, srvars, bkvars>>
    \/ (\E j \in 1..MaxBackends : transform_assemble(j))
            /\ UNCHANGED <<mqvars, plvars, hlvars, srvars, bkvars>>
    \/ (\E j \in 1..MaxBackends : transform_fails(j))
            /\ UNCHANGED <<mqvars, plvars, hlvars, srvars, bkvars>>
    \/ fanout_done /\ UNCHANGED <<mqvars, plvars, hlvars, srvars, bkvars>>

SpecFanout == Init /\ [][NextFanout]_vars

\* ------------------------------------------------- MessageQueue: properties
QueueIds == {slot_order[i].slot_id : i \in 1..Len(slot_order)}
TakenIds(le) == {le.taken[i].slot_id : i \in 1..Len(le.taken)}

\* A step that emitted a buffer.
Emits == n_emitted' > n_emitted

\* C1: the emitted buffers follow enqueue order.  Pieces are numbered in
\* enqueue order; the queue always holds exactly the pieces not yet emitted,
\* lowest number at the head, and every buffer emitted consumed the lowest
\* numbers not yet emitted: no piece is emitted before an earlier one.
C1_EmissionFollowsEnqueueOrder ==
    /\ \A i \in 1..Len(slot_order) : slot_order[i].serial = n_emitted + i
    /\ n_emitted + Len(slot_order) = next_serial - 1
    /\ \A i \in 1..Len(last_emit.taken) :
          last_emit.taken[i].serial = n_emitted - Len(last_emit.taken) + i

\* Witness: a later slot was fulfilled before the head, and get_sendable_bufs
\* returned None rather than emit it.
C1_Witness ==
    /\ mq_ret.op = "get_sendable_bufs" /\ ~mq_ret.ok
    /\ Len(slot_order) >= 2
    /\ is_slot_ready(slot_order, slots, 1)
    /\ ~is_slot_ready(slot_order, slots, 0)

\* C2: no slot is emitted twice and no slot outlives its emission.  A step
\* that emits leaves the ids it popped in neither slot_order nor slots; the
\* pieces in the queue are pieces not yet emitted; and an id enters the
\* allocator only through enqueue.
C2_AtMostOnceEmission ==
    [][/\ Emits =>
            \A k \in TakenIds(last_emit') :
                ~SlabContains(slots', k) /\ k \notin QueueIds'
       /\ \A i \in 1..Len(slot_order') : slot_order'[i].serial > n_emitted'
       /\ \A k \in 0..MaxPieces :
            (SlabContains(slots', k) /\ ~SlabContains(slots, k))
                => mq_ret'.op = "enqueue"
      ]_mqvars

\* Witness: the id of the slot emitted last has been allocated again.
C2_Witness ==
    /\ n_emitted >= 1
    /\ \E k \in TakenIds(last_emit) : k \in QueueIds

HeadIs(tag) == slot_order /= <<>> /\ Head(slot_order).state.tag = tag

GroupFilled ==
    \A i \in 0..(Head(slot_order).state.count - 1) : is_slot_ready(slot_order, slots, i)

\* C4: with a Fragmented(_, _, N) slot at the head, no step emits anything
\* until all N slots at the head are filled; then one call of
\* get_next_response removes exactly those N slots and emits exactly one
\* buffer, the defragmentation of the N responses.
C4_FragmentedGroupEmittedWhole ==
    [][HeadIs("Fragmented") =>
        LET n == Head(slot_order).state.count
            group == SubSeq(slot_order, 1, n)
        IN /\ ~GroupFilled =>
                /\ ~Emits
                /\ bufs' = bufs \/ bufs' = <<>>
                /\ \A i \in 1..Len(slot_order) : slot_order'[i] = slot_order[i]
           /\ (GroupFilled /\ mq_pc = "sending") =>
                /\ slot_order' = SubSeq(slot_order, n + 1, Len(slot_order))
                /\ n_emitted' = n_emitted + n
                /\ last_emit'.taken = group
                /\ bufs' = Append(bufs, last_emit'.buf)
                /\ last_emit'.buf =
                      defragment_messages(
                          [i \in 1..n |->
                              [state |-> group[i].state,
                               msg |-> SlabGet(slots, group[i].slot_id).val.val]]).msg
                /\ SlabKeys(slots') = SlabKeys(slots) \ TakenIds(last_emit')
      ]_mqvars

\* Witness: a group of two fragments was emitted as one buffer while another
\* slot was waiting behind it.
C4_Witness ==
    /\ mq_pc = "sending"
    /\ Len(last_emit.taken) = 2
    /\ last_emit.taken[1].state.tag = "Fragmented"
    /\ Len(bufs) = 1
    /\ slot_order /= <<>>

\* C5: a filled StreamingFragmented slot at the head is emitted by the next
\* call of get_next_response, alone, whatever the state of the slots behind it;
\* the buffer is the header, when the slot carries one, followed by the
\* response of the slot; and it is the next piece in enqueue (key) order.
C5_StreamingEmittedPiecewise ==
    [][(mq_pc = "sending" /\ HeadIs("StreamingFragmented")
            /\ is_slot_ready(slot_order, slots, 0)) =>
        LET front == Head(slot_order)
            payload == SlabGet(slots, front.slot_id).val.val
        IN /\ slot_order' = Tail(slot_order)
           /\ last_emit'.taken = <<front>>
           /\ front.serial = n_emitted + 1
           /\ n_emitted' = n_emitted + 1
           /\ last_emit'.buf =
                 (IF front.state.header.some THEN front.state.header.val ELSE <<>>)
                     \o payload
           /\ bufs' = Append(bufs, last_emit'.buf)
      ]_mqvars

\* Witness: the fragment carrying the header was emitted while the next
\* fragment of the same command was still unanswered.
C5_Witness ==
    /\ mq_pc = "sending"
    /\ Len(last_emit.taken) = 1
    /\ last_emit.taken[1].state.tag = "StreamingFragmented"
    /\ last_emit.taken[1].state.header.some
    /\ Len(last_emit.buf) = 2
    /\ HeadIs("StreamingFragmented")
    /\ ~is_slot_ready(slot_order, slots, 0)

\* The entries enqueue appended for the pieces it was given, with the messages
\* of the pieces.
NewEntries ==
    LET fmsgs == fragment_messages(mq_arg)
        base == Len(slot_order) - Len(fmsgs)
    IN [i \in 1..Len(fmsgs) |->
           [slot |-> slot_order[base + i].slot_id,
            state |-> slot_order[base + i].state,
            piece |-> fmsgs[i]]]

IsDispatched(x) == x.piece.state /= Inline

\* C6: right after enqueue, every Inline piece has a slot that already holds
\* its message and is not in the returned batch; every other piece has an
\* empty slot; and the returned batch is exactly the non-Inline pieces, each
\* once, paired with its slot id, in fragmenter order.
C6_EnqueueInlineAndBatch ==
    mq_ret.op = "enqueue" =>
        LET new == NewEntries
            dispatch == SelectSeq(new, IsDispatched)
        IN /\ \A i \in 1..Len(new) :
                /\ new[i].state = new[i].piece.state
                /\ IF new[i].piece.state = Inline
                   THEN /\ SlabGet(slots, new[i].slot) = Some(Some(new[i].piece.msg))
                        /\ \A j \in 1..Len(mq_ret.batch) : mq_ret.batch[j].slot /= new[i].slot
                   ELSE SlabGet(slots, new[i].slot) = Some(None)
           /\ mq_ret.batch = [j \in 1..Len(dispatch) |->
                                 [slot |-> dispatch[j].slot, msg |-> dispatch[j].piece.msg]]
           /\ \A j, k \in 1..Len(mq_ret.batch) :
                j /= k => mq_ret.batch[j].slot /= mq_ret.batch[k].slot

\* Witness: one enqueue of an Inline message followed by a two-key command.
C6_Witness ==
    /\ mq_ret.op = "enqueue"
    /\ Len(mq_arg) = 2
    /\ mq_arg[1].name = "PING"
    /\ mq_arg[2].nkeys = 2
    /\ Len(mq_ret.batch) = 2

\* The running fulfill has just installed the entry mq_arg.
Installed == mq_pc = "fulfilling" /\ fulfill_n > 0

\* C7: a Failed response fills its slot with the processor's error message:
\* the slot is ready exactly as after a Complete response, so get_sendable_bufs
\* does not stop at it.
C7_FailedFillsSlot ==
    /\ (Installed /\ mq_arg.response.kind = "Failed") =>
          /\ SlabGet(slots, mq_arg.slot) = Some(Some(get_error_message_str))
          /\ \A p \in 1..Len(slot_order) :
                slot_order[p].slot_id = mq_arg.slot => is_slot_ready(slot_order, slots, p - 1)
    /\ (Installed /\ mq_arg.response.kind = "Complete") =>
          SlabGet(slots, mq_arg.slot) = Some(Some(mq_arg.response.msg))
    /\ (mq_ret.op = "get_sendable_bufs" /\ ~mq_ret.ok /\ slot_order /= <<>>) =>
          SlabGet(slots, Head(slot_order).slot_id) = Some(None)

\* Witness: the client was sent the error message in the position of a
\* standalone request whose sub-request failed.
C7_Witness ==
    /\ mq_pc = "sending"
    /\ Len(last_emit.taken) = 1
    /\ last_emit.taken[1].state = Standalone
    /\ last_emit.buf = get_error_message_str
    /\ n_emitted = 2

\* C8: fulfill returns an error whenever an entry of the batch names a slot id
\* that is not allocated: the call never goes on past such an entry, and it
\* has returned Err when the entry it read last is one.
C8_FulfillUnknownSlotIsError ==
    /\ Installed => SlabContains(slots, mq_arg.slot)
    /\ (mq_ret.op = "fulfill" /\ mq_pc = "idle" /\ fulfill_n > 0
            /\ ~SlabContains(slots, mq_arg.slot)) => ~mq_ret.ok

\* Witness: the second entry of a batch named a slot that is not allocated.
C8_Witness ==
    /\ mq_ret.op = "fulfill" /\ mq_pc = "idle"
    /\ ~mq_ret.ok
    /\ fulfill_n = 2
    /\ ~SlabContains(slots, mq_arg.slot)

\* The piece a fulfilment answers has already been emitted and removed.
Stale(e) == e.serial >= 1 /\ e.serial <= n_emitted

\* C9: a fulfilment arriving for a slot already emitted and removed is
\* surfaced as an error and installs nothing: fulfill never accepts one.
C9_StaleFulfilmentIsError ==
    ~(Installed /\ Stale(mq_arg))

\* An iteration of the loop of get_sendable_bufs in which defragmentation
\* fails: the head group is fully filled and the processor rejects it.
DefragmentFails ==
    /\ mq_pc = "sending"
    /\ Len(bufs) <= MaxPieces
    /\ get_next_response(slot_order, slots).res = "Err"

\* C32: a processor error is answered, not dropped.  When defragmentation of
\* a fully filled Fragmented group fails, the call still emits one error reply
\* in the position of that group, and it goes on with the slots behind it: the
\* call does not return at that step.
C32_ProcessorErrorAnswered ==
    [][DefragmentFails =>
          /\ Len(bufs') = Len(bufs) + 1
          /\ IsError(bufs'[Len(bufs')])
          /\ mq_pc' = "sending"]_vars

\* A call returned right after a failed defragmentation: the group is gone
\* from the queue and from the slab, no buffer stands for it, and the slot
\* now at the head is ready and was not emitted.
C32_GroupDroppedUnanswered ==
    /\ mq_pc = "idle"
    /\ mq_ret.op = "get_sendable_bufs"
    /\ mq_ret.bufs = <<>>
    /\ n_emitted = 0
    /\ next_serial = MaxPieces + 1
    /\ Len(slot_order) = 1
    /\ is_slot_ready(slot_order, slots, 0)

\* The slot ids listed in the ordered queue.
QueuedIds == {slot_order[i].slot_id : i \in 1..Len(slot_order)}

\* C35: after any sequence of enqueue, fulfill and get_sendable_bufs calls,
\* the ones that return errors included, the slot ids listed in the ordered
\* queue are pairwise distinct and are exactly the ids allocated in the slab.
C35_QueueMatchesAllocator ==
    /\ \A i, j \in 1..Len(slot_order) :
          i /= j => slot_order[i].slot_id /= slot_order[j].slot_id
    /\ QueuedIds = SlabKeys(slots)

\* Three pieces were enqueued; one was emitted, one went with a group whose
\* defragmentation failed, one is still queued; the last call was a fulfill
\* that returned an error.
C35_Witness ==
    /\ mq_pc = "idle"
    /\ mq_ret.op = "fulfill" /\ ~mq_ret.ok
    /\ next_serial = MaxPieces + 1
    /\ n_emitted = 1
    /\ Len(slot_order) = 1
    /\ SlabKeys(slots) = {slot_order[1].slot_id}

\* C36: get_sendable_bufs terminates in every queue state.  Every buffer
\* that get_next_response produces removes at least one slot from the ordered
\* queue, so a call never holds more buffers than pieces were ever queued;
\* this for every fragment count of a Fragmented head, 0 and counts larger
\* than the queue included.
C36_EveryBufferRemovesASlot ==
    /\ [][Len(bufs') > Len(bufs) => Len(slot_order') < Len(slot_order)]_vars
    /\ [](mq_pc = "sending" => Len(bufs) + Len(slot_order) <= next_serial - 1)

\* A call of get_sendable_bufs that holds more buffers than pieces were ever
\* enqueued, over a head of fragment count 0 that is still queued.
C36_LoopWithoutProgress ==
    /\ mq_pc = "sending"
    /\ Len(bufs) > next_serial - 1
    /\ slot_order /= <<>>
    /\ Head(slot_order).state = Fragmented("MSET", 0, 0)

\* A head whose fragment count is larger than the queue is not ready: the
\* call returns with what it has.
C36_OversizedCountReturns ==
    /\ mq_pc = "idle"
    /\ mq_ret.op = "get_sendable_bufs"
    /\ Len(mq_ret.bufs) = 1
    /\ slot_order /= <<>>
    /\ Head(slot_order).state = Fragmented("MSET", 0, MaxPieces + 1)
    /\ is_slot_ready(slot_order, slots, 0)

\* The response held by the allocated slot `key`: None while it is unanswered.
HeldBy(s, key) == SlabGet(s, key).val

\* C37: fulfill is applied entry by entry and is not atomic.  An entry that
\* names an allocated slot installs its response there and nowhere else, and
\* the call goes on; an entry that names a slot that does not exist ends the
\* call with an error at once, so the entries behind it are never read, and
\* that step leaves every slot as the entries before it left it; the ordered
\* queue is the same all through the call.
C37_FulfillNotAtomic ==
    [][mq_pc = "fulfilling" =>
          /\ slot_order' = slot_order
          /\ SlabKeys(slots') = SlabKeys(slots)
          /\ IF fulfill_n' = fulfill_n + 1 /\ SlabContains(slots, mq_arg'.slot)
             THEN /\ HeldBy(slots', mq_arg'.slot).some
                  /\ \A k \in SlabKeys(slots) \ {mq_arg'.slot} :
                        HeldBy(slots', k) = HeldBy(slots, k)
                  /\ mq_pc' = "fulfilling"
             ELSE /\ slots' = slots
                  /\ mq_pc' = "idle"
                  /\ mq_ret'.op = "fulfill"
                  /\ mq_ret'.ok <=> fulfill_n' = fulfill_n]_vars

\* A fulfill of two entries returned an error at the second one, which names
\* a slot that was never allocated; the response of the first one is in its
\* slot, which was unanswered when the piece was enqueued and is still queued.
C37_Witness ==
    /\ mq_pc = "idle"
    /\ mq_ret = Ret("fulfill", FALSE, <<>>, <<>>)
    /\ fulfill_n = 2
    /\ mq_arg.slot = MaxPieces
    /\ n_emitted = 0
    /\ Len(slot_order) = 1
    /\ Head(slot_order).state = Standalone
    /\ HeldBy(slots, Head(slot_order).slot_id).some

\* ----------------------------------------------------- Pipeline: properties
\* C3: the responses handed to the transport sink are the responses of the
\* requests read, in the order the requests were read (requests are numbered
\* in read order), whatever order the service futures complete in; what is
\* still queued or in flight follows in the same order.
C3_ResponsesInRequestOrder ==
    /\ \A i \in 1..Len(sent) : sent[i] = i
    /\ \A i \in 1..Len(responses) : responses[i] > Len(sent)
    /\ \A i, j \in 1..Len(responses) : i < j => responses[i] < responses[j]
    /\ \A i \in 1..Len(responses), j \in 1..Len(pending) : responses[i] < pending[j].id

\* Witness: the third call has completed while the second is still running,
\* and the loop driving the futures has yielded nothing: the response of the
\* first request is the only one sent.
C3_Witness ==
    /\ pl_pc = "send"
    /\ sent = <<1>>
    /\ responses = <<>>
    /\ Len(pending) = 2
    /\ pending[1].st = "running"
    /\ pending[2].st = "ok"

\* C10: poll returns Ok only when the transport stream has ended, no service
\* future is in flight, no response waits to be sent and the flush made last
\* succeeded.
C10_OkOnlyWhenDrained ==
    pl_result = "Ok" =>
        /\ finish
        /\ pending = <<>>
        /\ responses = <<>>
        /\ last_flush = "Ok"

\* Witness: the pipeline ended with Ok after sending the responses of all the
\* requests it read.
C10_Witness ==
    /\ pl_result = "Ok"
    /\ n_read = MaxRequests
    /\ Len(sent) = MaxRequests

\* C34: whenever a service call was made during the receive loop of a poll,
\* the pipeline goes back to its main loop and polls the pending futures
\* before it yields: when poll has returned Pending, no future of the pending
\* set is left unpolled, also when the service reported not-ready right after
\* a call.
C34_NoFutureLeftUnpolled ==
    (pl_pc = "idle" /\ pl_result = "Pending") =>
        \A i \in 1..Len(pending) : pending[i].polled

\* poll returned Pending out of service.poll_ready after a call made in the
\* same pass: the future of that call was pushed and never polled, and only
\* the service holds the waker of the task.
C34_YieldedWithUnpolledFuture ==
    /\ pl_pc = "idle" /\ pl_result = "Pending"
    /\ called_service
    /\ last_io = Io("service.poll_ready", "Pending")
    /\ wakers = {"service"}
    /\ ~notified
    /\ pending /= <<>>
    /\ ~pending[Len(pending)].polled

\* C38: the finish flag is set at most once and never cleared; once it is set
\* the pipeline never polls the transport for another request and never calls
\* the service again (poll is never at service.poll_ready or at
\* transport.poll_next, no request is read, no future is pushed), so the
\* assertion assert!(!finish) of the receive loop never fails.
C38_FinishIsFinal ==
    /\ [][finish => /\ finish'
                    /\ n_read' = n_read
                    /\ Len(pending') <= Len(pending)]_vars
    /\ [](finish => pl_pc \notin {"service_ready", "recv"})
    /\ [](pl_result /= "Panic")

\* A closing pipeline that was polled again: the stream has ended with a call
\* still pending, poll has yielded at the finish test, and the next poll has
\* driven the pending futures and is about to flush.
C38_Witness ==
    /\ finish
    /\ pending /= <<>>
    /\ pl_pc = "flush"
    /\ last_io = Io("pending.poll_next", "Pending")
    /\ ~called_service
    /\ n_read = MaxRequests

\* ------------------------------------------------ BackendHealth: properties
\* A step of increment_error / of is_healthy (a call that changes nothing and
\* repeats the call before it is a stuttering step).
IncrementErrorStep == hl_ret'.op = "increment_error" /\ now' = now
IsHealthyStep == hl_ret'.op = "is_healthy" /\ now' = now

\* C19: with cool-off enabled and error_limit L >= 1, every increment_error
\* adds 1 to error_count; a backend that is not cooling has fewer than L
\* errors and enters cool-off exactly with its L-th error, the deadline being
\* the time of that call plus the period; an error recorded while cooling
\* leaves the cool-off, the deadline and the epoch as they are.
C19_CooloffAtErrorLimit ==
    [][(IncrementErrorStep /\ cooloff_enabled /\ error_limit >= 1) =>
        /\ error_count' = error_count + 1
        /\ IF in_cooloff
           THEN /\ in_cooloff'
                /\ cooloff_done_at' = cooloff_done_at
                /\ epoch' = epoch
           ELSE /\ error_count < error_limit
                /\ in_cooloff' <=> (error_count' = error_limit)
                /\ IF in_cooloff'
                   THEN cooloff_done_at' = now + cooloff_period_ms
                   ELSE cooloff_done_at' = cooloff_done_at
      ]_hlvars

\* Witness: with error_limit 2, a third error was recorded after the clock
\* moved on: the backend is cooling and the deadline is that of the second
\* error.
C19_Witness ==
    /\ cooloff_enabled /\ error_limit = 2 /\ cooloff_period_ms = 2
    /\ hl_ret.op = "increment_error"
    /\ in_cooloff /\ error_count = 3
    /\ cooloff_done_at < now + cooloff_period_ms

\* C20: is_healthy returns true if and only if cool-off is not enabled, or the
\* backend is not in cool-off, or now >= cooloff_deadline; in the third case
\* it resets error_count, clears in_cooloff and bumps epoch.
C20_IsHealthyIff ==
    [][IsHealthyStep =>
        /\ hl_ret'.value <=>
              (~cooloff_enabled \/ ~in_cooloff \/ now >= cooloff_done_at)
        /\ (cooloff_enabled /\ in_cooloff /\ now >= cooloff_done_at) =>
              /\ error_count' = 0
              /\ ~in_cooloff'
              /\ epoch' = epoch + 1
      ]_hlvars

\* C21: while the backend is cooling and the deadline lies ahead, every
\* is_healthy call returns false and changes nothing, and an error recorded
\* in between leaves the cool-off and its deadline as they are; the first
\* is_healthy call after the deadline has passed returns true, resets
\* error_count to 0 and ends the episode; a call on a backend that is not
\* cooling returns true and resets nothing, so each episode resets once.
\* (The instant now = cooloff_done_at is the matter of C20.)
C21_CooloffMonotonic ==
    [][/\ (IsHealthyStep /\ in_cooloff /\ now < cooloff_done_at) =>
              /\ ~hl_ret'.value
              /\ UNCHANGED <<error_count, in_cooloff, epoch, cooloff_done_at>>
       /\ (IncrementErrorStep /\ in_cooloff) =>
              /\ in_cooloff'
              /\ cooloff_done_at' = cooloff_done_at
       /\ (IsHealthyStep /\ in_cooloff /\ now > cooloff_done_at) =>
              /\ hl_ret'.value
              /\ error_count' = 0
              /\ ~in_cooloff'
              /\ epoch' = epoch + 1
       /\ (IsHealthyStep /\ ~in_cooloff) =>
              /\ hl_ret'.value
              /\ UNCHANGED <<error_count, in_cooloff, epoch>>
      ]_hlvars

\* Witness: a second cool-off episode has been ended by is_healthy, with
\* errors recorded during the episodes.
C21_Witness ==
    /\ cooloff_enabled /\ error_limit = 2 /\ cooloff_period_ms >= 1
    /\ hl_ret = HlRet("is_healthy", TRUE)
    /\ epoch = 4 /\ ~in_cooloff /\ error_count = 0
    /\ now > cooloff_done_at

\* C22: epoch grows by exactly 1 in every step that takes the backend into
\* cool-off and in every step that takes it out, and stays as it is in every
\* other step; so it never decreases, and it is odd exactly while the backend
\* is cooling.
C22_EpochCountsTransitions ==
    /\ [][IF in_cooloff' # in_cooloff THEN epoch' = epoch + 1 ELSE epoch' = epoch]_hlvars
    /\ [](in_cooloff <=> epoch % 2 = 1)

\* Witness: the backend went into cool-off, out of it and in again.
C22_Witness ==
    /\ epoch = 3 /\ in_cooloff
    /\ hl_ret.op = "increment_error"

\* ------------------------------------- Backend and supervisor: properties
\* C23: every connection that terminated on a failure has one command in the
\* supervisor's channel or has been taken off the count, never both and never
\* twice; the supervisor, run without shutdown raised, leaves its command
\* loop only with the channel empty, that is with every failure known so far
\* taken off the count; and every command taken lowers conn_count by exactly
\* 1 and records exactly one error with the backend's health.
C23_OneDecrementOneErrorPerFailure ==
    /\ [](/\ Failures = command_rx + n_decrements
          /\ conn_count = Len(conns) - n_decrements
          /\ conn_count >= 0)
    /\ [][(sv_pc = "commands" /\ sv_pc' = "health") => n_decrements = Failures]_vars
    /\ [][n_decrements' # n_decrements =>
              /\ n_decrements' = n_decrements + 1
              /\ conn_count' = conn_count - 1
              /\ hl_ret'.op = "increment_error"
              /\ error_count' = error_count + 1
         ]_vars

\* Witness: two connections failed, and a supervisor pass without shutdown
\* has taken both off the count and recorded two errors.
C23_Witness ==
    /\ Failures = 2 /\ n_decrements = 2 /\ command_rx = 0
    /\ sv_pc = "health" /\ ~close
    /\ error_count = 2

\* C24: a supervisor pass in which shutdown is not raised ends with
\* conn_count = conn_limit, whatever the backend's health, and with one
\* connection spawned for each of the conn_limit places and for each failure
\* taken off the count; between passes the count stays at conn_limit.
C24_FixedPopulation ==
    /\ [][(sv_pc = "spawn" /\ sv_pc' = "idle") =>
              /\ conn_count' = conn_limit
              /\ Len(conns') = conn_limit + n_decrements
         ]_vars
    /\ []((sv_pc \in {"idle", "closed"} /\ conns # <<>>) => conn_count = conn_limit)

\* Witness: a pass has ended while the backend is in cool-off, after two
\* failed connections were replaced.
C24_Witness ==
    /\ sv_pc = "idle" /\ ~close
    /\ in_cooloff
    /\ n_decrements = 2
    /\ Len(conns) = MaxConns + 2
    /\ conn_count = conn_limit

\* The sockets a connection has in its hands: the one it holds and the one
\* its operation owns.
SocketsOf(conn) == {conn.socket, conn.current.socket} \ {NoSocket}
Running(c) == c \in 1..Len(conns) /\ conns[c].st = "running"

\* C25: a connection whose operation completes gets that operation's socket
\* back, and the operation it starts next runs on that same socket (only a
\* connection without a socket has a new one opened); a connection that fails
\* puts exactly one command into the supervisor's channel and is not touched
\* again; no socket is ever in the hands of two connections, so the socket
\* of a failed connection, which no step hands on, serves no later batch.
C25_ReuseOnSuccessTerminateOnFailure ==
    /\ [][\A c \in 1..Len(conns) :
            LET conn == conns[c]
                after == conns'[c]
                held == IF conn.current # NoOp THEN conn.current.socket ELSE conn.socket
            IN  /\ (conn.current # NoOp /\ conn.current.batch \in completed' \ completed
                        /\ after.current = NoOp) =>
                      after.socket = conn.current.socket
                /\ (after.current # NoOp /\ after.current # conn.current) =>
                      IF held # NoSocket
                      THEN after.current.socket = held /\ n_sockets' = n_sockets
                      ELSE after.current.socket = n_sockets + 1 /\ n_sockets' = n_sockets + 1
                /\ (conn.st = "running" /\ after.st = "failed") =>
                      command_rx' = command_rx + 1
                /\ conn.st # "running" => after = conn
         ]_vars
    /\ [](\A c1, c2 \in 1..Len(conns) :
            c1 # c2 => SocketsOf(conns[c1]) \cap SocketsOf(conns[c2]) = {})

\* Witness: batch 1 and then batch 2 ran on socket 1, the only socket opened;
\* another connection has failed.
C25_Witness ==
    /\ \E c \in 1..Len(conns) : conns[c].current = Op(2, 1) /\ conns[c].st = "running"
    /\ 1 \in completed
    /\ n_sockets = 1
    /\ Failures >= 1

\* C26: a connection with an operation in flight holds no socket of its own,
\* and an operation in flight owns a socket; a connection takes a batch from
\* the work queue only when it has no operation or its operation has just
\* completed; a batch is taken by one connection, and a socket serves one
\* operation at a time.
C26_OneOperationAtATime ==
    /\ [](\A c \in 1..Len(conns) :
            conns[c].current # NoOp =>
                /\ conns[c].socket = NoSocket
                /\ conns[c].current.socket # NoSocket)
    /\ [](\A c1, c2 \in 1..Len(conns) :
            (c1 # c2 /\ conns[c1].current # NoOp /\ conns[c2].current # NoOp) =>
                /\ conns[c1].current.socket # conns[c2].current.socket
                /\ conns[c1].current.batch # conns[c2].current.batch)
    /\ [][\A c \in 1..Len(conns) :
            (conns'[c].current # NoOp /\ conns'[c].current # conns[c].current) =>
                /\ conns[c].current # NoOp => conns[c].current.batch \in completed'
                /\ work_queue # <<>>
                /\ conns'[c].current.batch = Head(work_queue)
                /\ work_queue' = Tail(work_queue)
         ]_vars

\* Witness: two connections each run an operation, on a socket each, and
\* neither holds a socket of its own meanwhile.
C26_Witness ==
    \E c1, c2 \in 1..Len(conns) :
        /\ Running(c1) /\ Running(c2)
        /\ conns[c1].current = Op(1, 1) /\ conns[c2].current = Op(2, 2)
        /\ conns[c1].socket = NoSocket /\ conns[c2].socket = NoSocket

\* A step of the supervisor task: it moves on in its poll, or takes a command.
SupervisorStep == sv_pc' # sv_pc \/ n_decrements' # n_decrements

\* C31: error_count, in_cooloff, epoch and the deadline change in steps of
\* the supervisor task only; a probe from the pool side through
\* Backend::is_healthy changes none of them.
C31_HealthSingleWriter ==
    [][<<error_count, in_cooloff, epoch, cooloff_done_at>>' #
            <<error_count, in_cooloff, epoch, cooloff_done_at>>
          => SupervisorStep]_vars

\* C33: a connection terminates cleanly only from a poll of the work queue
\* that found it closed and empty, which it makes only without an operation
\* or right after its operation completed; the clean exit puts no command
\* into the supervisor's channel, so the commands sent and the errors
\* recorded count the failed connections only.
C33_CleanExitAfterCurrentOperation ==
    /\ [][\A c \in 1..Len(conns) :
            (conns[c].st = "running" /\ conns'[c].st = "done") =>
                /\ wq_closed /\ work_queue = <<>>
                /\ conns[c].current # NoOp => conns[c].current.batch \in completed'
                /\ conns'[c].current = NoOp
                /\ command_rx' = command_rx
         ]_vars
    /\ [](command_rx + n_decrements = Failures /\ error_count <= Failures)

\* Witness: a connection ran an operation to its end, got its socket back and
\* then found the work queue closed; nothing was reported or recorded.
C33_Witness ==
    /\ \E c \in 1..Len(conns) : conns[c].st = "done" /\ conns[c].socket # NoSocket
    /\ command_rx = 0 /\ n_decrements = 0 /\ error_count = 0
    /\ sv_pc = "idle" /\ conn_count = conn_limit

\* The connection tasks alive.
Live == {c \in 1..Len(conns) : conns[c].st = "running"}

\* C39: in every state there are at most conn_limit connection tasks alive,
\* conn_count is at most conn_limit and at least 0, and the commands a
\* connection has sent are at most one: those queued and those taken are
\* together the failed connections.
C39_SupervisorAccounting ==
    /\ Cardinality(Live) <= conn_limit
    /\ conn_count <= conn_limit
    /\ conn_count >= 0
    /\ command_rx + n_decrements = Failures
    /\ Cardinality(Live) <= conn_count

\* Witness: after failures and a clean exit, a pass has filled the count up
\* again, and fewer tasks are alive than are counted.
C39_Witness ==
    /\ Failures = 2 /\ n_decrements = 2
    /\ \E c \in 1..Len(conns) : conns[c].st = "done"
    /\ sv_pc = "idle" /\ conn_count = conn_limit
    /\ Cardinality(Live) < conn_limit

\* ------------------------------------------------- ShadowRouter: properties
\* C17: two runs that differ only in what the shadow pool does (whether it is
\* ready, what its futures answer and when) get the same answer from every
\* ShadowRouter::call: the future of the call made on the default pool.
C17_ShadowNonInterference ==
    /\ returned[1] = returned[2]
    /\ \A r \in Runs : \A k \in 1..Len(returned[r]) :
          returned[r][k] = [kind |-> "default", future |-> k]

\* The batch ShadowRouter::call was given at its k-th call, as the default pool
\* and as the shadow pool are to receive it.
DefaultCopy(k) ==
    [i \in 1..Len(requests[k]) |->
        [id |-> requests[k][i].id, msg |-> requests[k][i].msg, has_response |-> TRUE]]
ShadowCopy(k) ==
    [i \in 1..Len(requests[k]) |->
        [id |-> 0, msg |-> requests[k][i].msg, has_response |-> FALSE]]

\* C18: every batch ShadowRouter::call is given is submitted exactly once to
\* the default pool, with its slot ids, and exactly once to the shadow pool,
\* as requests without response, same messages in the same order; and the
\* shadow future is handed to the worker, which holds it until it completes.
C18_BatchSubmittedToBothPools ==
    \A r \in Runs :
        /\ Len(default_calls[r]) = Len(returned[r])
        /\ Len(shadow_calls[r]) = Len(returned[r])
        /\ \A k \in 1..Len(default_calls[r]) : default_calls[r][k] = DefaultCopy(k)
        /\ \A k \in 1..Len(shadow_calls[r]) : shadow_calls[r][k] = ShadowCopy(k)
        /\ \A k \in 1..Len(shadow_futs[r]) :
              \/ k \in SeqToSet(noops[r])
              \/ k \in worker[r].inner
              \/ shadow_futs[r][k] /= "running"

\* C40: the readiness of the router is that of the default pool alone, and
\* call submits to the shadow pool without asking for its readiness: a shadow
\* pool that is not ready never delays or blocks a client request.  Every
\* call the router is given once the default pool is ready submits the batch
\* to the shadow pool and to the default pool and returns the future of the
\* default pool, in each run, whatever the shadow pool's readiness.
C40_ShadowReadinessNeverBlocks ==
    [][Len(requests') = Len(requests) + 1 =>
          \A r \in Runs : sr_alive[r] =>
              /\ Len(shadow_calls'[r]) = Len(shadow_calls[r]) + 1
              /\ Len(default_calls'[r]) = Len(default_calls[r]) + 1
              /\ Len(returned'[r]) = Len(returned[r]) + 1
              /\ returned'[r][Len(returned'[r])] =
                    [kind |-> "default", future |-> Len(default_calls'[r])]]_vars

\* The default pool was ready and one batch was given to the router.  In
\* run 1, whose shadow pool was not ready, the call unwound in
\* shadow_inner.call: the default pool never got the batch.  In run 2 it did.
C40_ClientRequestBlocked ==
    /\ Len(requests) = 1
    /\ ~shadow_ready[1]
    /\ ~sr_alive[1]
    /\ default_calls[1] = <<>>
    /\ returned[1] = <<[kind |-> "panic", future |-> 0]>>
    /\ sr_alive[2]
    /\ Len(default_calls[2]) = 1

\* A failure reported by the transport or the service, or a pipeline ended by
\* one.
Failure ==
    \/ last_io.res = "Err"
    \/ pl_result \in {"ErrService", "ErrSend", "ErrReceive"}

\* C11: once the transport stream has signalled its end, the pipeline
\* terminates with Ok, every response sent, provided the futures in flight
\* complete, the sink unclogs and neither reports a failure.
C11_TerminatesWhenDrained ==
    finish ~> ((pl_result = "Ok" /\ Len(sent) = n_read) \/ Failure)

\* Witness: the pipeline ended with Ok after the stream ended, the responses
\* of the three requests sent and flushed.
C11_Witness ==
    /\ finish
    /\ pl_result = "Ok"
    /\ n_read = 3
    /\ sent = <<1, 2, 3>>
    /\ last_io = Io("transport.poll_flush", "Ok")

\* C12: when the sink reports not-ready while responses are pushed, the loop
\* stops there: the steps from the not-ready answer to the flush send nothing
\* and leave the response queue as it was, the response that could not be
\* sent at its head; and whatever is sent next is the head of the queue.
C12_SinkBackpressure ==
    [][/\ (pl_pc = "send" /\ responses /= <<>> /\ pl_pc' = "flush") =>
            /\ responses' = responses
            /\ sent' = sent
       /\ (pl_pc = "flush" /\ responses /= <<>>) =>
            /\ responses' = responses
            /\ sent' = sent
       /\ sent' /= sent =>
            /\ sent' = Append(sent, Head(responses))
            /\ responses' = Tail(responses)
      ]_plvars

\* Witness: the sink took the first response and reported not-ready for the
\* second, which waits at the head of the queue with the third behind it.
C12_Witness ==
    /\ pl_pc = "flush"
    /\ last_io = Io("transport.poll_ready", "Pending")
    /\ sent = <<1>>
    /\ responses = <<2, 3>>

ServiceReady == Io("service.poll_ready", "Ok")

\* C13: the transport is asked for a request only when the call made just
\* before was a service.poll_ready that returned ready, so every request
\* read, and the service.call made with it, follows a successful poll_ready
\* of its own; after a not-ready answer nothing is read.
C13_ReadOnlyWhenServiceReady ==
    [][/\ pl_pc' = "recv" => last_io' = ServiceReady
       /\ n_read' /= n_read => (pl_pc = "recv" /\ last_io = ServiceReady)
       /\ (last_io'.call = "transport.poll_next" /\ last_io' /= last_io) =>
             last_io = ServiceReady
      ]_plvars

\* Witness: two requests were read in one pass, each after a poll_ready of
\* its own, and the third poll_ready reported not-ready: poll returned.
C13_Witness ==
    /\ pl_pc = "idle"
    /\ last_io = Io("service.poll_ready", "Pending")
    /\ n_read = 2
    /\ Len(pending) = 2
    /\ sent = <<>>

\* C14: once the close signal is raised the pipeline reads no new request
\* from its transport, and it is given up only when no service future is in
\* flight and no response waits to be written.
C14_CloseStopsIntakeThenDrains ==
    [][/\ close_raised => n_read' = n_read
       /\ (pl_result' = "Dropped" /\ pl_result /= "Dropped") =>
            (pending = <<>> /\ responses = <<>>)
      ]_plvars

\* C15 (as stated): the pipeline ends with an error only because of a failure
\* of the transport; a failure of the service never ends it.
C15_OnlyTransportFailuresEnd ==
    /\ (pl_pc = "done" /\ pl_result /= "Ok") => pl_result \in {"ErrSend", "ErrReceive"}
    /\ (last_io.call \in {"service.poll_ready", "pending.poll_next"}
            /\ last_io.res = "Err") => pl_pc /= "done"

\* C15 (amended): the pipeline ends with an error because of a failure of the
\* transport or of the service.  A failure of service.poll_ready or of the
\* future of a call ends it with PipelineError::Service, and the request of a
\* failed future gets no reply; TransportSend comes from the sink's poll_ready
\* or start_send, TransportReceive from the stream.
C15_ErrorsThatEndThePipeline ==
    /\ pl_result \in {"ErrService", "ErrSend", "ErrReceive"} => pl_pc = "done"
    /\ pl_result = "ErrService" <=>
          (last_io.call \in {"service.poll_ready", "pending.poll_next"}
              /\ last_io.res = "Err")
    /\ (pl_result = "ErrService" /\ last_io.call = "pending.poll_next") =>
          Len(sent) + Len(responses) + Len(pending) = n_read - 1
    /\ pl_result = "ErrSend" =>
          (last_io.call \in {"transport.poll_ready", "transport.start_send"}
              /\ last_io.res = "Err")
    /\ pl_result = "ErrReceive" => last_io = Io("transport.poll_next", "Err")

\* Witness: the future of the second call failed after the response of the
\* first was sent, and the pipeline ended with PipelineError::Service.
C15_Witness ==
    /\ pl_pc = "done"
    /\ pl_result = "ErrService"
    /\ last_io = Io("pending.poll_next", "Err")
    /\ sent = <<1>>
    /\ n_read = 2

\* C16: every failure the transport reports, on the stream or on the sink
\* (poll_ready, start_send, poll_flush), ends the pipeline with the matching
\* PipelineError.
C16_TransportFailureEndsPipeline ==
    (last_io.res = "Err" /\ last_io.call \in {"transport.poll_next", "transport.poll_ready",
                                              "transport.start_send", "transport.poll_flush"})
        => /\ pl_pc = "done"
           /\ pl_result = IF last_io.call = "transport.poll_next"
                          THEN "ErrReceive" ELSE "ErrSend"

\* ------------------------------------------------------ fan-out: properties
\* The batch as (id, message) pairs, ids counting from 0 (redis.rs:71-80).
Numbered(messages) == [k \in 1..Len(messages) |-> <<k - 1, messages[k]>>]
IsSubsequence(s, t) ==
    \E f \in [1..Len(s) -> 1..Len(t)] :
        /\ \A k \in 1..Len(s) : s[k] = t[f[k]]
        /\ \A k, l \in 1..Len(s) : k < l => f[k] < f[l]
\* The results of all the response futures, one after the other.
RECURSIVE CombinedFrom(_)
CombinedFrom(j) == IF j > Len(subs) THEN <<>> ELSE subs[j].response \o CombinedFrom(j + 1)
Combined == CombinedFrom(1)

\* C27: after the fan-out of a batch, each (id, message) pair of the batch is
\* in the sub-batch of the backend the shard function gives for its key and
\* in no other; no backend has two sub-batches and no sub-batch is empty; the
\* pairs of a sub-batch stand in their batch order; and once every response
\* future has resolved, the combined result has exactly one pair for each id
\* of the batch.
C27_FanoutPartitionsTheBatch ==
    fo_pc # "idle" =>
        /\ \A k \in 1..Len(fo_messages) :
             \A j \in 1..Len(subs) :
                (\E l \in 1..Len(subs[j].msgs) : subs[j].msgs[l] = Numbered(fo_messages)[k])
                    <=> subs[j].backend_idx = get_backend_index(get_message_key(fo_messages[k]))
        /\ \A j \in 1..Len(subs) :
             /\ subs[j].msgs # <<>>
             /\ IsSubsequence(subs[j].msgs, Numbered(fo_messages))
             /\ \A k \in 1..Len(subs) : k # j => subs[k].backend_idx # subs[j].backend_idx
        /\ fo_pc = "done" =>
             /\ Len(Combined) = Len(fo_messages)
             /\ \A k \in 1..Len(fo_messages) :
                  Cardinality({l \in 1..Len(Combined) : Combined[l][1] = k - 1}) = 1

\* Witness: a batch of three messages, the first and the third for one
\* backend and the second for the other, has been fanned out and answered.
C27_Witness ==
    /\ fo_pc = "done"
    /\ fo_messages = <<Command(0), Command(1), Command(2)>>
    /\ Len(subs) = 2
    /\ \E j \in 1..2 : subs[j].msgs = <<<<0, Command(0)>>, <<2, Command(2)>>>>
    /\ Len(Combined) = 3

\* C28: the sub-batches of a fan-out are submitted in ascending order of
\* backend index.
C28_AscendingSubmission ==
    \A j, k \in 1..Len(subs) : j < k => subs[j].backend_idx < subs[k].backend_idx

\* The ids of a list of pairs, and the places of a response that hold an
\* error reply.
IdsOf(pairs) == {pairs[k][1] : k \in 1..Len(pairs)}
ErrorsIn(response) == {k \in 1..Len(response) : response[k][2] = ErrorReply}

\* C29: a sub-batch whose operation failed is answered with one error reply
\* for each of its ids and for no other id; a sub-batch whose operation
\* succeeded is answered with no error reply, whatever became of the others;
\* and once all have resolved, the batch has exactly one reply per request.
C29_FailureContainedPerSubBatch ==
    /\ \A j \in 1..Len(subs) :
         LET sub == subs[j]
         IN  /\ sub.stage = "failed" =>
                  /\ sub.resolved
                  /\ Len(sub.response) = Len(sub.msgs)
                  /\ \A k \in 1..Len(sub.msgs) : sub.response[k] = <<sub.msgs[k][1], ErrorReply>>
             /\ sub.stage = "done" =>
                  /\ IdsOf(sub.response) = IdsOf(sub.msgs)
                  /\ ErrorsIn(sub.response) = {}
             /\ \A k \in 1..Len(subs) :
                  k # j => IdsOf(sub.response) \cap IdsOf(subs[k].msgs) = {}
    /\ fo_pc = "done" =>
         \A i \in 0..(Len(fo_messages) - 1) :
            Cardinality({l \in 1..Len(Combined) : Combined[l][1] = i}) = 1

\* Witness: of two sub-batches one failed and one succeeded, and the caller
\* has all three replies, two of them errors.
C29_Witness ==
    /\ fo_pc = "done"
    /\ Len(fo_messages) = 3
    /\ \E j, k \in 1..Len(subs) :
          /\ subs[j].stage = "failed" /\ Len(subs[j].msgs) = 2
          /\ subs[k].stage = "done"
    /\ Cardinality(ErrorsIn(Combined)) = 2

\* C30: on a backend socket the requests of a batch of n are all written, in
\* their order, before a response is read; no more than n responses are
\* read; the socket is given back only once n have been read; and the result
\* pairs the id of the i-th request with the i-th response read, which
\* answers the i-th request.
C30_WriteAllThenReadAll ==
    \A j \in 1..Len(subs) :
        LET sub == subs[j]
            n == Len(sub.msgs)
        IN  /\ sub.written \in {<<>>, split_msgs(sub.msgs)}
            /\ sub.resps # <<>> => sub.written = split_msgs(sub.msgs)
            /\ Len(sub.resps) <= n
            /\ \A i \in 1..Len(sub.resps) : sub.resps[i] = Reply(sub.msgs[i][2])
            /\ sub.socket_back => Len(sub.resps) = n
            /\ sub.stage = "done" =>
                 /\ sub.socket_back
                 /\ Len(sub.response) = n
                 /\ \A i \in 1..n : sub.response[i] = <<sub.msgs[i][1], sub.resps[i]>>

\* Witness: a sub-batch of two requests, not the first two of the batch, has
\* been written, answered and paired, and its socket is back.
C30_Witness ==
    \E j \in 1..Len(subs) :
        /\ subs[j].stage = "done" /\ subs[j].socket_back
        /\ subs[j].response = <<<<0, Reply(Command(0))>>, <<2, Reply(Command(2))>>>>

====
